---------------------------- MODULE Spec2Model ----------------------------
(***************************************************************************)
(* Model of the astronomical computation engine of the visual-website      *)
(* repository (utils/astronomy.ts): Julian Day, local sidereal time, moon  *)
(* phase, visible constellations, visible planets and the moon-phase       *)
(* graphic; of the moon phase of the user interface (utils/moonPhase); of  *)
(* the star-map API handler (pages/api/star-map), of the NASA APOD handler *)
(* (pages/api/nasa/apod.ts) and of the API middleware (middleware.ts).     *)
(*                                                                         *)
(* Specifications, over one set of variables:                              *)
(*   Spec            the engine's functions on an instant and an observer; *)
(*   SpecSvg         generateMoonPhaseSVG on a grid of phases;             *)
(*   SpecUi          getMoonPhaseByDay of the user interface;              *)
(*   SpecStarMap     requests to the star-map handler and its cache;       *)
(*   SpecMiddleware  requests through the middleware and its counters;     *)
(*   SpecPlanets     getVisiblePlanets over three decades;                 *)
(*   SpecStarMapSvg  generateStarMapSVG on lists of names;                 *)
(*   SpecRateLimit   one client's requests through the rate limiter;       *)
(*   SpecUiDate      getMoonPhase of the user interface on dates;          *)
(*   SpecApi         the star-map and the APOD handler with their caches.  *)
(*                                                                         *)
(* Numbers.  The engine computes with IEEE doubles; the model computes     *)
(* with exact scaled integers:                                             *)
(*   - a Date is its Unix time in whole seconds (UTC);                     *)
(*   - a Julian Day is carried as (jd - 2451545.0) in units of 1/Unit day, *)
(*     or as its whole days and the part of a day in those units;          *)
(*   - the moon phase is carried as a numerator over LunarCycle, i.e. the  *)
(*     fraction daysFromNewMoon / lunarCycle itself, not rounded;          *)
(*   - angles of sidereal time are carried in units of 0.0001 degree;      *)
(*   - Math.cos / Math.sin are interpolated between exact values at every  *)
(*     5 degrees (CosTable), within 0.001 of the true value.               *)
(*   - angles of the user interface's getMoonPhase are carried in          *)
(*     millionths of a degree.                                             *)
(* JavaScript's % is the truncated remainder (JsRem): its result has the   *)
(* sign of the dividend.                                                   *)
(***************************************************************************)
EXTENDS Integers, Sequences, FiniteSets, TLC

VARIABLES
  tzOffset,    \* host time zone: local time = UTC + tzOffset hours
  date,        \* the Date argument (Unix seconds); for the UI and the
               \* HTTP handlers the host clock, new Date()
  latitude,    \* observer latitude, units of 0.0001 degree
  longitude,   \* observer longitude, units of 0.0001 degree
  phaseArg,    \* the phase argument of generateMoonPhaseSVG (over LunarCycle)
  pc,          \* the function evaluated last ("idle" before any call)
  ret,         \* its return value
  prev,        \* an earlier evaluation kept for comparison with a later one
  dayOfCycle,  \* the argument of the UI's getMoonPhaseByDay (hundredths of a day)
  req,         \* the HTTP request being answered
  cache,       \* the star-map handler's response cache: key -> response
  ipRequestCounts,  \* the middleware's map: ip -> [count, timestamp]
  now,         \* the middleware's clock, Date.now() in milliseconds
  coreCalls,   \* the engine functions evaluated for the last request
  handled,     \* the number of requests answered so far
  constellations,  \* the names argument of generateStarMapSVG
  passed,      \* the requests the middleware let through: time -> number
  apiCache     \* the APOD handler's cache: key -> [data, timestamp]

vars == <<tzOffset, date, latitude, longitude, phaseArg, pc, ret, prev,
          dayOfCycle, req, cache, ipRequestCounts, now, coreCalls, handled,
          constellations, passed, apiCache>>

\* the state outside the core engine
others == <<dayOfCycle, req, cache, ipRequestCounts, now, coreCalls, handled,
            constellations, passed, apiCache>>

(***************************************************************************)
(* Bounds of the model.                                                    *)
(***************************************************************************)
\* the instants examined lie DaysBefore days before .. DaysAfter days after
\* 2000-01-01 (UTC day 10957 of the Unix era)
DaysBefore == 40
DaysAfter == 366

(***************************************************************************)
(* Arithmetic of the host language.                                        *)
(***************************************************************************)
Abs(x) == IF x < 0 THEN -x ELSE x

\* a % b of JavaScript for b > 0: truncated remainder, sign of the dividend
JsRem(a, b) == IF a >= 0 THEN a % b ELSE -((-a) % b)

(***************************************************************************)
(* The Date object: local calendar fields and UTC clock fields.            *)
(***************************************************************************)
SecondsPerDay == 86400

\* civil date of a day number counted from 1970-01-01 (proleptic Gregorian)
CivilFromDays(n) ==
  LET z    == n + 719468
      era  == z \div 146097
      doe  == z - era * 146097
      yoe  == (doe - doe \div 1460 + doe \div 36524 - doe \div 146096) \div 365
      doy  == doe - (365 * yoe + yoe \div 4 - yoe \div 100)
      mp   == (5 * doy + 2) \div 153
      d    == doy - (153 * mp + 2) \div 5 + 1
      m    == IF mp < 10 THEN mp + 3 ELSE mp - 9
      y    == yoe + era * 400 + (IF m <= 2 THEN 1 ELSE 0)
  IN  [year |-> y, month |-> m, day |-> d]

\* the local calendar day of an instant on a host tz hours ahead of UTC
LocalCivil(d, tz) == CivilFromDays((d + tz * 3600) \div SecondsPerDay)

getFullYear(d, tz) == LocalCivil(d, tz).year
getMonth(d, tz)    == LocalCivil(d, tz).month - 1      \* 0..11
getDate(d, tz)     == LocalCivil(d, tz).day
getUTCHours(d)     == (d % SecondsPerDay) \div 3600
getUTCMinutes(d)   == (d % 3600) \div 60
getUTCSeconds(d)   == d % 60

(***************************************************************************)
(* getJulianDay                                                            *)
(***************************************************************************)
\* units per day of the Julian Day scale: 1/24 day, 18 seconds and
\* 0.00001 day are all whole numbers of units
Unit == 600000
\* J2000.0 = JD 2451545.0, the origin of the scale
J2000 == 2451545

\* the whole-day part (Meeus), lines 76-81
JulianDayNumber(year, month, day) ==
  LET a  == (14 - month) \div 12
      y  == year + 4800 - a
      m  == month + 12 * a - 3
      j0 == day + (153 * m + 2) \div 5 + 365 * y + y \div 4
  IN  j0 - y \div 100 + y \div 400 - 32045

\* (hours - 12)/24 + minutes/1440 + seconds/86400, in units
TimeOfDayFraction(hours, minutes, seconds) ==
  (((hours - 12) * 3600 + minutes * 60 + seconds) * 125) \div 18

\* getJulianDay(date) - 2451545.0 as whole days and a part of a day in
\* units, -Unit/2 <= part < Unit/2
JulianDaySplit(d, tz) ==
  LET year    == getFullYear(d, tz)
      month   == getMonth(d, tz) + 1
      day     == getDate(d, tz)
      hours   == getUTCHours(d)
      minutes == getUTCMinutes(d)
      seconds == getUTCSeconds(d)
  IN  [days |-> JulianDayNumber(year, month, day) - J2000,
       part |-> TimeOfDayFraction(hours, minutes, seconds)]

\* getJulianDay(date) - 2451545.0, in units
getJulianDay(d, tz) ==
  LET year    == getFullYear(d, tz)
      month   == getMonth(d, tz) + 1
      day     == getDate(d, tz)
      hours   == getUTCHours(d)
      minutes == getUTCMinutes(d)
      seconds == getUTCSeconds(d)
  IN  (JulianDayNumber(year, month, day) - J2000) * Unit
        + TimeOfDayFraction(hours, minutes, seconds)

(***************************************************************************)
(* getLocalSiderealTime                                                    *)
(***************************************************************************)
\* angles: units per degree
Deg == 10000
FullCircle == 360 * Deg

\* 280.46061837 + 360.98564736629 * (jd - 2451545.0), in angle units, for
\* jd - 2451545.0 = n / Unit.  The terms 0.000387933*t*t and t*t*t/38710000
\* of lines 104-105 (t = Julian centuries) stay below 0.0000002 degree
\* within a century of J2000 and do not reach the resolution carried here.
GreenwichRaw(n) ==
  LET q == n \div Unit          \* whole days (floor)
      r == n % Unit             \* part of a day, 0 .. Unit-1
  IN  2804606 + q * 3609856 + (q * 4737) \div 10000
        + r * 6 + ((r \div 100) * 16427) \div 10000

\* x % 360 alone
Normalize360_NoShift(x) == JsRem(x, FullCircle)

\* ((x % 360) + 360) % 360
Normalize360(x) == JsRem(JsRem(x, FullCircle) + FullCircle, FullCircle)

getLocalSiderealTime(d, tz, lng) ==
  LET jd  == getJulianDay(d, tz)
      gst == Normalize360(GreenwichRaw(jd))
      lst == gst + lng
  IN  Normalize360(lst)

(***************************************************************************)
(* Math.cos and Math.sin                                                   *)
(***************************************************************************)
\* cos(0), cos(5 deg), ..., cos(90 deg), times CosOne
CosOne == 10000
CosTable ==
  << 10000, 9962, 9848, 9659, 9397, 9063, 8660, 8192, 7660, 7071,
     6428, 5736, 5000, 4226, 3420, 2588, 1736, 872, 0 >>

\* cosine over the first quadrant; t / den counts steps of 5 degrees, 0..18
CosQuadrant(t, den) ==
  LET k == t \div den
      f == ((t % den) * 100) \div den
  IN  IF k >= 18 THEN 0
      ELSE CosTable[k + 1] - ((CosTable[k + 1] - CosTable[k + 2]) * f) \div 100

\* Math.cos(2 * Math.PI * n / den), times CosOne
Cos2Pi(n, den) ==
  LET a == Abs(n) % den                                \* cos is even, periodic
      b == IF 2 * a > den THEN den - a ELSE a           \* cos(2pi - x) = cos x
      t == 72 * b                                       \* 0 .. 36 * den
  IN  IF t <= 18 * den THEN CosQuadrant(t, den)
      ELSE -CosQuadrant(36 * den - t, den)

(***************************************************************************)
(* getMoonPhase                                                            *)
(***************************************************************************)
\* lunarCycle = 29.53059 days, in units
LunarCycle == 17718354
\* newMoonRef = 2451550.1, in units after J2000
NewMoonRef == 3060000
\* illumination 1.0
IllumOne == 2 * CosOne

\* 0.5 * (1 + Math.cos(2 * Math.PI * phase))
Illumination_PlusCos(p) == CosOne + Cos2Pi(p, LunarCycle)

\* 0.5 * (1 - Math.cos(2 * Math.PI * phase)), phase = p / LunarCycle
Illumination(p) == CosOne - Cos2Pi(p, LunarCycle)

\* the chain with the first test reduced to phase < 0.025
PhaseName_NoWrap(p) ==
  IF 40 * p < LunarCycle THEN "New Moon"
  ELSE IF 40 * p < 9 * LunarCycle THEN "Waxing Crescent"
  ELSE IF 40 * p < 11 * LunarCycle THEN "First Quarter"
  ELSE IF 40 * p < 19 * LunarCycle THEN "Waxing Gibbous"
  ELSE IF 40 * p < 21 * LunarCycle THEN "Full Moon"
  ELSE IF 40 * p < 29 * LunarCycle THEN "Waning Gibbous"
  ELSE IF 40 * p < 31 * LunarCycle THEN "Last Quarter"
  ELSE "Waning Crescent"

\* lines 137-161; phase < k/40 is 40 * p < k * LunarCycle
PhaseName(p) ==
  IF 40 * p < LunarCycle \/ 40 * p >= 39 * LunarCycle THEN "New Moon"
  ELSE IF 40 * p < 9 * LunarCycle THEN "Waxing Crescent"
  ELSE IF 40 * p < 11 * LunarCycle THEN "First Quarter"
  ELSE IF 40 * p < 19 * LunarCycle THEN "Waxing Gibbous"
  ELSE IF 40 * p < 21 * LunarCycle THEN "Full Moon"
  ELSE IF 40 * p < 29 * LunarCycle THEN "Waning Gibbous"
  ELSE IF 40 * p < 31 * LunarCycle THEN "Last Quarter"
  ELSE "Waning Crescent"

\* the emoji assigned in the same branches (by code point)
PhaseEmoji(p) ==
  IF 40 * p < LunarCycle \/ 40 * p >= 39 * LunarCycle THEN "U+1F311"
  ELSE IF 40 * p < 9 * LunarCycle THEN "U+1F312"
  ELSE IF 40 * p < 11 * LunarCycle THEN "U+1F313"
  ELSE IF 40 * p < 19 * LunarCycle THEN "U+1F314"
  ELSE IF 40 * p < 21 * LunarCycle THEN "U+1F315"
  ELSE IF 40 * p < 29 * LunarCycle THEN "U+1F316"
  ELSE IF 40 * p < 31 * LunarCycle THEN "U+1F317"
  ELSE "U+1F318"

\* (jd - newMoonRef) % lunarCycle
DaysFromNewMoon(jd) == JsRem(jd - NewMoonRef, LunarCycle)

getMoonPhase(d, tz) ==
  LET jd    == getJulianDay(d, tz)
      phase == DaysFromNewMoon(jd)        \* over LunarCycle
  IN  [ name         |-> PhaseName(phase),
        phase        |-> phase,
        illumination |-> Illumination(phase),
        emoji        |-> PhaseEmoji(phase) ]

(***************************************************************************)
(* getVisibleConstellations                                                *)
(***************************************************************************)
\* the northern season on both hemispheres
Season_Same(month, day, isNorthernHemisphere) ==
  IF (month = 11 /\ day >= 21) \/ month < 2 \/ (month = 2 /\ day < 20) THEN "winter"
  ELSE IF (month = 2 /\ day >= 20) \/ month < 5 \/ (month = 5 /\ day < 21) THEN "spring"
  ELSE IF (month = 5 /\ day >= 21) \/ month < 8 \/ (month = 8 /\ day < 23) THEN "summer"
  ELSE "fall"

\* lines 190-211; month is 0..11
Season(month, day, isNorthernHemisphere) ==
  IF isNorthernHemisphere
  THEN IF (month = 11 /\ day >= 21) \/ month < 2 \/ (month = 2 /\ day < 20) THEN "winter"
       ELSE IF (month = 2 /\ day >= 20) \/ month < 5 \/ (month = 5 /\ day < 21) THEN "spring"
       ELSE IF (month = 5 /\ day >= 21) \/ month < 8 \/ (month = 8 /\ day < 23) THEN "summer"
       ELSE "fall"
  ELSE IF (month = 11 /\ day >= 21) \/ month < 2 \/ (month = 2 /\ day < 20) THEN "summer"
       ELSE IF (month = 2 /\ day >= 20) \/ month < 5 \/ (month = 5 /\ day < 21) THEN "fall"
       ELSE IF (month = 5 /\ day >= 21) \/ month < 8 \/ (month = 8 /\ day < 23) THEN "winter"
       ELSE "spring"

Con(n, r) == [name |-> n, ra |-> r]

\* right ascensions in tenths of an hour
constellationsBySeason ==
  [ winter |-> << Con("Orion", 55), Con("Canis Major", 70), Con("Canis Minor", 80),
                  Con("Gemini", 70), Con("Taurus", 45), Con("Auriga", 60),
                  Con("Perseus", 30), Con("Eridanus", 35), Con("Lepus", 60) >>,
    spring |-> << Con("Leo", 110), Con("Virgo", 130), Con("Ursa Major", 110),
                  Con("Bootes", 150), Con("Corona Borealis", 160),
                  Con("Canes Venatici", 130), Con("Coma Berenices", 130),
                  Con("Hydra", 120) >>,
    summer |-> << Con("Cygnus", 205), Con("Lyra", 190), Con("Aquila", 200),
                  Con("Hercules", 170), Con("Scorpius", 170), Con("Sagittarius", 190),
                  Con("Ophiuchus", 175), Con("Libra", 155) >>,
    fall   |-> << Con("Pegasus", 220), Con("Andromeda", 10), Con("Pisces", 10),
                  Con("Aquarius", 230), Con("Capricornus", 210), Con("Cetus", 20),
                  Con("Phoenix", 10), Con("Grus", 225) >> ]

circumNorth == << "Ursa Minor", "Cassiopeia", "Cepheus", "Draco", "Camelopardalis" >>
circumSouth == << "Crux", "Centaurus", "Carina", "Octans", "Tucana" >>
common == << "Orion", "Ursa Major", "Cassiopeia", "Crux", "Scorpius" >>

\* one hour of right ascension = 15 degrees; a tenth of an hour, in angle units
TenthHour == 15000
Hour == 10 * TenthHour

\* |c.ra - lstHours|, replaced by 24 - it when above 12; in angle units
HourDiff(ra, lst) ==
  LET hourDiff == Abs(ra * TenthHour - lst)
  IN  IF hourDiff > 12 * Hour THEN 24 * Hour - hourDiff ELSE hourDiff

Includes(seq, x) == \E i \in 1..Len(seq) : seq[i] = x

Slice5(seq) == SubSeq(seq, 1, IF Len(seq) < 5 THEN Len(seq) ELSE 5)

\* Array.prototype.sort with the comparator of lines 277-286 (a stable sort):
\* x goes behind every element that does not compare greater than it
RECURSIVE InsertByDiff(_, _, _)
InsertByDiff(sorted, x, lst) ==
  IF sorted = << >> THEN << x >>
  ELSE IF HourDiff(Head(sorted).ra, lst) <= HourDiff(x.ra, lst)
       THEN << Head(sorted) >> \o InsertByDiff(Tail(sorted), x, lst)
       ELSE << x >> \o sorted

RECURSIVE SortByDiff(_, _)
SortByDiff(seq, lst) ==
  IF seq = << >> THEN << >>
  ELSE InsertByDiff(SortByDiff(SubSeq(seq, 1, Len(seq) - 1), lst), seq[Len(seq)], lst)

\* the filtered names in catalog order, not sorted
VisibleSeasonal_Unsorted(season, lst) ==
  LET raw    == SelectSeq(constellationsBySeason[season],
                          LAMBDA c : HourDiff(c.ra, lst) < 6 * Hour)
      sliced == Slice5(raw)
  IN  [i \in 1..Len(sliced) |-> sliced[i].name]

\* lines 268-288: the seasonal names, closest to the LST first, at most 5
VisibleSeasonal(season, lst) ==
  LET raw    == SelectSeq(constellationsBySeason[season],
                          LAMBDA c : HourDiff(c.ra, lst) < 6 * Hour)
      sorted == Slice5(SortByDiff(raw, lst))
  IN  [i \in 1..Len(sorted) |-> sorted[i].name]

\* no padding
PadCommon_None(result, i) == result

\* lines 307-315: pad with the common names not yet included
RECURSIVE PadCommon(_, _)
PadCommon(result, i) ==
  IF i > Len(common) THEN result
  ELSE IF ~Includes(result, common[i])
       THEN LET pushed == Append(result, common[i])
            IN  IF Len(pushed) >= 5 THEN pushed ELSE PadCommon(pushed, i + 1)
       ELSE PadCommon(result, i + 1)

\* the second pick at the index of the first
SelectedCircumpolar_Same(d, tz, isNorthernHemisphere, seasonalCount) ==
  LET circumpolar == IF isNorthernHemisphere THEN circumNorth ELSE circumSouth
      dateNum     == getDate(d, tz) + getMonth(d, tz) * 100 + getFullYear(d, tz) * 10000
      circ1Index  == dateNum % Len(circumpolar)
  IN  IF seasonalCount < 4
      THEN << circumpolar[circ1Index + 1], circumpolar[circ1Index + 1] >>
      ELSE << circumpolar[circ1Index + 1] >>

\* lines 291-301
SelectedCircumpolar(d, tz, isNorthernHemisphere, seasonalCount) ==
  LET circumpolar == IF isNorthernHemisphere THEN circumNorth ELSE circumSouth
      dateNum     == getDate(d, tz) + getMonth(d, tz) * 100 + getFullYear(d, tz) * 10000
      circ1Index  == dateNum % Len(circumpolar)
      circ2Index  == (dateNum + 2) % Len(circumpolar)
  IN  IF seasonalCount < 4
      THEN << circumpolar[circ1Index + 1], circumpolar[circ2Index + 1] >>
      ELSE << circumpolar[circ1Index + 1] >>

getVisibleConstellations(d, tz, lat, lng) ==
  LET month    == getMonth(d, tz)
      day      == getDate(d, tz)
      lst      == getLocalSiderealTime(d, tz, lng)
      isNorthernHemisphere == lat >= 0
      season   == Season(month, day, isNorthernHemisphere)
      visibleSeasonal == VisibleSeasonal(season, lst)
      selectedCircumpolar ==
        SelectedCircumpolar(d, tz, isNorthernHemisphere, Len(visibleSeasonal))
      result   == visibleSeasonal \o selectedCircumpolar
      padded   == IF Len(result) < 4 THEN PadCommon(result, 1) ELSE result
  IN  Slice5(padded)

(***************************************************************************)
(* getVisiblePlanets                                                       *)
(***************************************************************************)
\* orbital periods in days, in the order of Object.entries
periods ==
  << [name |-> "Mercury", period |-> 88], [name |-> "Venus", period |-> 225],
     [name |-> "Mars", period |-> 687], [name |-> "Jupiter", period |-> 4333],
     [name |-> "Saturn", period |-> 10759] >>

\* (jd - j2000) % period as whole days and a part in units, both with the
\* sign of jd - j2000: n = q days + r units, q truncated towards zero
OrbitRem(n, period) ==
  LET q == IF n.days > 0 /\ n.part < 0 THEN n.days - 1
           ELSE IF n.days < 0 /\ n.part > 0 THEN n.days + 1
           ELSE n.days
      r == n.part + (n.days - q) * Unit
  IN  [days |-> JsRem(q, period), part |-> r]

\* phase < k/100 and phase > k/100 for phase = rem / period
PhaseLt(rem, period, k) ==
  100 * rem.days + rem.part \div (Unit \div 100) < k * period
PhaseGt(rem, period, k) ==
  100 * rem.days - ((-rem.part) \div (Unit \div 100)) > k * period

\* floor(1000 * phase)
PhaseMilli(rem, period) ==
  (1000 * rem.days + rem.part \div (Unit \div 1000)) \div period

\* brightest + range * Math.abs(phase - 0.5) * 2, in thousandths of a magnitude
Magnitude(brightest, range, rem, period) ==
  brightest + (range * Abs(PhaseMilli(rem, period) - 500) * 2) \div 1000

BelowHorizon == "Below horizon (not visible)"

\* the switch of lines 359-434 for one planet
PlanetCase(name, rem, period) ==
  CASE name = "Mercury" ->
         IF PhaseLt(rem, period, 25) \/ PhaseGt(rem, period, 75)
         THEN [description |-> "Low on eastern horizon before sunrise",
               isVisible |-> PhaseGt(rem, period, 80) \/ PhaseLt(rem, period, 20),
               magnitude |-> Magnitude(-1900, 7600, rem, period)]
         ELSE [description |-> "Low on western horizon after sunset",
               isVisible |-> PhaseGt(rem, period, 30) /\ PhaseLt(rem, period, 70),
               magnitude |-> Magnitude(-1900, 7600, rem, period)]
    [] name = "Venus" ->
         IF PhaseLt(rem, period, 25) \/ PhaseGt(rem, period, 75)
         THEN [description |-> "Morning star (eastern horizon before sunrise)",
               isVisible |-> TRUE,
               magnitude |-> Magnitude(-4600, 1600, rem, period)]
         ELSE [description |-> "Evening star (western horizon after sunset)",
               isVisible |-> TRUE,
               magnitude |-> Magnitude(-4600, 1600, rem, period)]
    [] name = "Mars" ->
         [description |-> IF PhaseLt(rem, period, 25) THEN "Rising in the east"
                          ELSE IF PhaseLt(rem, period, 50) THEN "High in the southern sky"
                          ELSE IF PhaseLt(rem, period, 75) THEN "Setting in the west"
                          ELSE BelowHorizon,
          isVisible |-> PhaseLt(rem, period, 75),
          magnitude |-> Magnitude(-2900, 4700, rem, period)]
    [] name = "Jupiter" ->
         [description |-> IF PhaseLt(rem, period, 33) THEN "Rising in the east"
                          ELSE IF PhaseLt(rem, period, 66) THEN "High in the southern sky"
                          ELSE "Setting in the west",
          isVisible |-> TRUE,
          magnitude |-> Magnitude(-2900, 900, rem, period)]
    [] name = "Saturn" ->
         [description |-> IF PhaseLt(rem, period, 25) THEN "Rising in the east"
                          ELSE IF PhaseLt(rem, period, 50) THEN "High in the southern sky"
                          ELSE IF PhaseLt(rem, period, 75) THEN "Setting in the west"
                          ELSE BelowHorizon,
          isVisible |-> PhaseLt(rem, period, 75),
          magnitude |-> Magnitude(-200, 1400, rem, period)]

\* lines 436-446: every planet but Jupiter is hidden when dateNum % 11 = 0
HiddenByDate(d, tz, name) ==
  LET month   == getMonth(d, tz)
      day     == getDate(d, tz)
      dateNum == day + month * 31
  IN  dateNum % 11 = 0 /\ name # "Jupiter"

\* every planet kept whatever its rule says
PlanetEntry_Visible(d, tz, jd, p) ==
  LET rem == OrbitRem(jd, p.period)
      c   == PlanetCase(p.name, rem, p.period)
  IN  [name |-> p.name, description |-> c.description,
       magnitude |-> c.magnitude, isVisible |-> TRUE]

\* one iteration of the forEach of lines 349-456
PlanetEntry(d, tz, jd, p) ==
  LET rem == OrbitRem(jd, p.period)
      c   == PlanetCase(p.name, rem, p.period)
  IN  IF HiddenByDate(d, tz, p.name)
      THEN [name |-> p.name, description |-> BelowHorizon,
            magnitude |-> c.magnitude, isVisible |-> FALSE]
      ELSE [name |-> p.name, description |-> c.description,
            magnitude |-> c.magnitude, isVisible |-> c.isVisible]

backup ==
  << [name |-> "Venus", description |-> "Evening star (western horizon after sunset)",
      magnitude |-> -4000, isVisible |-> TRUE],
     [name |-> "Jupiter", description |-> "High in the southern sky",
      magnitude |-> -2500, isVisible |-> TRUE] >>

HasPlanet(result, name) == \E i \in 1..Len(result) : result[i].name = name

\* no backup pair
AddBackup_None(result, i) == result

\* lines 475-480
RECURSIVE AddBackup(_, _)
AddBackup(result, i) ==
  IF i > Len(backup) THEN result
  ELSE IF ~HasPlanet(result, backup[i].name)
       THEN LET pushed == Append(result, backup[i])
            IN  IF Len(pushed) >= 2 THEN pushed ELSE AddBackup(pushed, i + 1)
       ELSE AddBackup(result, i + 1)

getVisiblePlanets(d, tz, lat, lng) ==
  LET jd      == JulianDaySplit(d, tz)
      entries == [i \in 1..Len(periods) |-> PlanetEntry(d, tz, jd, periods[i])]
      result  == SelectSeq(entries, LAMBDA e : e.isVisible)
  IN  IF Len(result) < 2 THEN AddBackup(result, 1) ELSE result

(***************************************************************************)
(* generateMoonPhaseSVG                                                    *)
(***************************************************************************)
\* Math.sin(2 * Math.PI * n / den), times CosOne, for 0 <= n < den
Sin2Pi(n, den) ==
  LET b    == IF 2 * n > den THEN den - n ELSE n        \* sin(2pi - x) = -sin x
      t    == 72 * b                                    \* 0 .. 36 * den
      half == IF t <= 18 * den THEN CosQuadrant(18 * den - t, den)
              ELSE CosQuadrant(t - 18 * den, den)
  IN  IF 2 * n > den THEN -half ELSE half

\* the graphic is the sequence of its shapes, in drawing order
SvgR == 40
Circle(fill) ==
  [shape |-> "circle", cx |-> 50, cy |-> 50, r |-> SvgR, fill |-> fill]
\* M 50 10  A rx 40 0 0 sweep 50 90  L 50 10 Z       (rx times CosOne)
HalfDisc(sweep, fill) ==
  [shape |-> "path", fill |-> fill, rx |-> SvgR * CosOne, sweep |-> sweep,
   back |-> "L", backSweep |-> 0]
\* M 50 10  A rx 40 0 0 sweep 50 90  A 40 40 0 0 backSweep 50 10
Lune(rx, sweep, backSweep, fill) ==
  [shape |-> "path", fill |-> fill, rx |-> rx, sweep |-> sweep,
   back |-> "A", backSweep |-> backSweep]

\* ((phase % 1) + 1) % 1, phase = p / LunarCycle
NormalizePhase(p) == JsRem(JsRem(p, LunarCycle) + LunarCycle, LunarCycle)

\* Math.abs(Math.sin(phaseAngle * Math.PI / 180)) * r, times CosOne
CurveFactor(phase) == Abs(Sin2Pi(phase, LunarCycle)) * SvgR

\* the renderer without the special case of the full moon
generateMoonPhaseSVG_NoFull(p) ==
  LET phase == NormalizePhase(p)
  IN  IF 100 * Abs(phase) < LunarCycle \/ 100 * Abs(phase - LunarCycle) < LunarCycle
        THEN << Circle("black") >>
      ELSE IF 25 * Abs(4 * phase - LunarCycle) < LunarCycle
        THEN << Circle("black"), HalfDisc(1, "white") >>
      ELSE IF 25 * Abs(4 * phase - 3 * LunarCycle) < LunarCycle
        THEN << Circle("black"), HalfDisc(0, "white") >>
      ELSE IF 2 * phase < LunarCycle
        THEN IF 4 * phase < LunarCycle
             THEN << Circle("black"), Lune(CurveFactor(phase), 1, 0, "white") >>
             ELSE << Circle("white"), Lune(CurveFactor(phase), 0, 1, "black") >>
      ELSE IF 4 * phase < 3 * LunarCycle
             THEN << Circle("white"), Lune(CurveFactor(phase), 1, 0, "black") >>
             ELSE << Circle("black"), Lune(CurveFactor(phase), 0, 1, "white") >>

generateMoonPhaseSVG(p) ==
  LET phase == NormalizePhase(p)
  IN  IF 100 * Abs(phase) < LunarCycle \/ 100 * Abs(phase - LunarCycle) < LunarCycle
        THEN << Circle("black") >>
      ELSE IF 50 * Abs(2 * phase - LunarCycle) < LunarCycle
        THEN << Circle("white") >>
      ELSE IF 25 * Abs(4 * phase - LunarCycle) < LunarCycle
        THEN << Circle("black"), HalfDisc(1, "white") >>
      ELSE IF 25 * Abs(4 * phase - 3 * LunarCycle) < LunarCycle
        THEN << Circle("black"), HalfDisc(0, "white") >>
      ELSE IF 2 * phase < LunarCycle
        THEN IF 4 * phase < LunarCycle
             THEN << Circle("black"), Lune(CurveFactor(phase), 1, 0, "white") >>
             ELSE << Circle("white"), Lune(CurveFactor(phase), 0, 1, "black") >>
      ELSE IF 4 * phase < 3 * LunarCycle
             THEN << Circle("white"), Lune(CurveFactor(phase), 1, 0, "black") >>
             ELSE << Circle("black"), Lune(CurveFactor(phase), 0, 1, "white") >>

(***************************************************************************)
(* Inputs.                                                                 *)
(***************************************************************************)
\* 2000-01-01T00:00:00Z
Epoch2000 == 10957 * SecondsPerDay

\* times of day examined (seconds after 00:00 UTC, multiples of 18)
TimesOfDay ==
  {0, 6 * 3600 + 3 * 60 + 36, 12 * 3600, 14 * 3600 + 24 * 60, 23 * 3600 + 57 * 60}

\* the resolution of the instants examined: 18 seconds, a whole number of units
Tick == 18
TickUnits == (Tick * Unit) \div SecondsPerDay

\* the reference new moon of getMoonPhase, 2000-01-06T14:24:00Z (jd 2451550.1)
RefNewMoon == Epoch2000 + 5 * SecondsPerDay + 14 * 3600 + 24 * 60

\* the new moons examined: NewMoonsBefore before the reference, NewMoonsAfter after
NewMoonsBefore == 1
NewMoonsAfter == 12

\* the instant k lunar cycles from the reference, on the tick just beyond it:
\* its distance to the reference is k cycles and less than one tick more
NewMoonInstant(k) ==
  LET ticks == (Abs(k) * LunarCycle + TickUnits - 1) \div TickUnits
  IN  RefNewMoon + (IF k < 0 THEN -ticks ELSE ticks) * Tick

Instants ==
  { Epoch2000 + n * SecondsPerDay + s : n \in (-DaysBefore)..DaysAfter, s \in TimesOfDay }
    \cup { NewMoonInstant(k) : k \in (-NewMoonsBefore)..NewMoonsAfter }

\* host offsets from UTC, hours
TimeZones == {-5, 0, 10}

\* observers: New York, Sydney, the origin, and the ends of both ranges
Observers ==
  { [lat |-> 407128, lng |-> -740060],
    [lat |-> -338700, lng |-> 1512100],
    [lat |-> 0, lng |-> 0],
    [lat |-> 90 * Deg, lng |-> -180 * Deg],
    [lat |-> -90 * Deg, lng |-> 180 * Deg] }

\* later instants at which an evaluation is repeated (seconds)
Steps == {Tick, 3600, SecondsPerDay, 3 * SecondsPerDay, 15 * SecondsPerDay}

NoPrev == [valid |-> FALSE, date |-> 0, ret |-> 0]
Remember == [valid |-> TRUE, date |-> date, ret |-> ret]

\* no UI call, no request, nothing cached, nothing counted
NoRequest == [method |-> "none"]
OthersIdle ==
  /\ dayOfCycle = 0
  /\ req = NoRequest
  /\ cache = << >>
  /\ ipRequestCounts = << >>
  /\ now = 0
  /\ coreCalls = {}
  /\ handled = 0
  /\ constellations = << >>
  /\ passed = << >>
  /\ apiCache = << >>

Init ==
  /\ tzOffset \in TimeZones
  /\ date \in Instants
  /\ \E o \in Observers : latitude = o.lat /\ longitude = o.lng
  /\ phaseArg = 0
  /\ pc = "idle"
  /\ ret = 0
  /\ prev = NoPrev
  /\ OthersIdle

\* getJulianDay(date)
GetJulianDay ==
  /\ pc = "idle"
  /\ pc' = "getJulianDay"
  /\ ret' = getJulianDay(date, tzOffset)
  /\ UNCHANGED <<tzOffset, date, latitude, longitude, phaseArg, prev, others>>

\* getJulianDay again, for a later instant
GetJulianDayLater ==
  /\ pc = "getJulianDay"
  /\ ~prev.valid
  /\ \E s \in Steps :
       /\ date' = date + s
       /\ ret' = getJulianDay(date + s, tzOffset)
  /\ prev' = Remember
  /\ UNCHANGED <<tzOffset, latitude, longitude, phaseArg, pc, others>>

\* getLocalSiderealTime(date, longitude)
GetLocalSiderealTime ==
  /\ pc = "idle"
  /\ pc' = "getLocalSiderealTime"
  /\ ret' = getLocalSiderealTime(date, tzOffset, longitude)
  /\ UNCHANGED <<tzOffset, date, latitude, longitude, phaseArg, prev, others>>

\* getMoonPhase(date)
GetMoonPhase ==
  /\ pc = "idle"
  /\ pc' = "getMoonPhase"
  /\ ret' = getMoonPhase(date, tzOffset)
  /\ UNCHANGED <<tzOffset, date, latitude, longitude, phaseArg, prev, others>>

\* getMoonPhase again, for a later instant
GetMoonPhaseLater ==
  /\ pc = "getMoonPhase"
  /\ ~prev.valid
  /\ \E s \in Steps :
       /\ date' = date + s
       /\ ret' = getMoonPhase(date + s, tzOffset)
  /\ prev' = Remember
  /\ UNCHANGED <<tzOffset, latitude, longitude, phaseArg, pc, others>>

\* getVisibleConstellations(date, latitude, longitude)
GetVisibleConstellations ==
  /\ pc = "idle"
  /\ pc' = "getVisibleConstellations"
  /\ ret' = getVisibleConstellations(date, tzOffset, latitude, longitude)
  /\ UNCHANGED <<tzOffset, date, latitude, longitude, phaseArg, prev, others>>

\* getVisiblePlanets(date, latitude, longitude)
GetVisiblePlanets ==
  /\ pc = "idle"
  /\ pc' = "getVisiblePlanets"
  /\ ret' = getVisiblePlanets(date, tzOffset, latitude, longitude)
  /\ UNCHANGED <<tzOffset, date, latitude, longitude, phaseArg, prev, others>>

Next ==
  \/ GetJulianDay
  \/ GetJulianDayLater
  \/ GetLocalSiderealTime
  \/ GetMoonPhase
  \/ GetMoonPhaseLater
  \/ GetVisibleConstellations
  \/ GetVisiblePlanets

Spec == Init /\ [][Next]_vars

(***************************************************************************)
(* Properties.                                                             *)
(***************************************************************************)
\* C1: getMoonPhase returns a phase p with 0 <= p < 1 for every instant,
\* also for instants before the reference new moon.
C1_PhaseInUnitInterval ==
  pc = "getMoonPhase" => (0 <= ret.phase /\ ret.phase < LunarCycle)

\* the eight phases with their boundaries in fortieths of the cycle
C2_Phases ==
  { [name |-> "New Moon",        emoji |-> "U+1F311", from |-> 0,  to |-> 1],
    [name |-> "Waxing Crescent", emoji |-> "U+1F312", from |-> 1,  to |-> 9],
    [name |-> "First Quarter",   emoji |-> "U+1F313", from |-> 9,  to |-> 11],
    [name |-> "Waxing Gibbous",  emoji |-> "U+1F314", from |-> 11, to |-> 19],
    [name |-> "Full Moon",       emoji |-> "U+1F315", from |-> 19, to |-> 21],
    [name |-> "Waning Gibbous",  emoji |-> "U+1F316", from |-> 21, to |-> 29],
    [name |-> "Last Quarter",    emoji |-> "U+1F317", from |-> 29, to |-> 31],
    [name |-> "Waning Crescent", emoji |-> "U+1F318", from |-> 31, to |-> 39],
    [name |-> "New Moon",        emoji |-> "U+1F311", from |-> 39, to |-> 40] }

C2_Within(p, row) == row.from * LunarCycle <= 40 * p /\ 40 * p < row.to * LunarCycle

\* C2: a phase in [0,1) gets the one name whose interval contains it, and a
\* name always comes with the same emoji.
C2_NameFollowsBoundaries ==
  pc = "getMoonPhase" =>
    /\ (0 <= ret.phase /\ ret.phase < LunarCycle) =>
         /\ Cardinality({row \in C2_Phases : C2_Within(ret.phase, row)}) = 1
         /\ \A row \in C2_Phases :
              C2_Within(ret.phase, row) => ret.name = row.name
    /\ \E row \in C2_Phases : ret.name = row.name /\ ret.emoji = row.emoji

\* a phase in the last fortieth of the cycle has been named
C2_Witness ==
  /\ pc = "getMoonPhase"
  /\ 40 * ret.phase >= 39 * LunarCycle
  /\ ret.name = "New Moon"

\* C3: the illumination is 0.5*(1-cos(2*pi*phase)) of the returned phase; it
\* lies in [0,1], is 0 at phase 0 and 1 at phase 0.5, and between two
\* evaluations it does not decrease while the phase grows within [0,0.5] and
\* does not increase while the phase grows within [0.5,1).
C3_IlluminationFollowsPhase ==
  /\ Illumination(0) = 0
  /\ Illumination(LunarCycle \div 2) = IllumOne
  /\ pc = "getMoonPhase" =>
       /\ ret.illumination = CosOne - Cos2Pi(ret.phase, LunarCycle)
       /\ 0 <= ret.illumination /\ ret.illumination <= IllumOne
       /\ ret.phase = 0 => ret.illumination = 0
       /\ 2 * ret.phase = LunarCycle => ret.illumination = IllumOne
       /\ prev.valid =>
            /\ (0 <= prev.ret.phase /\ prev.ret.phase <= ret.phase
                  /\ 2 * ret.phase <= LunarCycle)
                 => prev.ret.illumination <= ret.illumination
            /\ (LunarCycle <= 2 * prev.ret.phase /\ prev.ret.phase <= ret.phase
                  /\ ret.phase < LunarCycle)
                 => prev.ret.illumination >= ret.illumination

\* two evaluations in the waning half, the later one darker
C3_Witness ==
  /\ pc = "getMoonPhase"
  /\ prev.valid
  /\ LunarCycle <= 2 * prev.ret.phase
  /\ prev.ret.phase < ret.phase
  /\ prev.ret.illumination > ret.illumination

\* C4: getVisibleConstellations returns at least 4 and at most 5 names.
C4_FourOrFiveNames ==
  pc = "getVisibleConstellations" => (4 <= Len(ret) /\ Len(ret) <= 5)

\* no seasonal constellation is near the LST and the list was padded
C4_Witness ==
  /\ pc = "getVisibleConstellations"
  /\ VisibleSeasonal(Season(getMonth(date, tzOffset), getDate(date, tzOffset),
                            latitude >= 0),
                     getLocalSiderealTime(date, tzOffset, longitude)) = << >>
  /\ Len(ret) = 5

\* C5: getVisiblePlanets returns at least 2 entries, all with isVisible = true,
\* no planet twice.
C5_TwoVisiblePlanets ==
  pc = "getVisiblePlanets" =>
    /\ Len(ret) >= 2
    /\ \A i \in 1..Len(ret) : ret[i].isVisible
    /\ \A i, j \in 1..Len(ret) : ret[i].name = ret[j].name => i = j

\* a date before J2000 whose date-number is divisible by 11
C5_Witness ==
  /\ pc = "getVisiblePlanets"
  /\ getJulianDay(date, tzOffset) < 0
  /\ (getDate(date, tzOffset) + 31 * getMonth(date, tzOffset)) % 11 = 0
  /\ Len(ret) = 2

\* C6: of two instants the later one has the greater Julian Day, whatever
\* the host's offset from UTC.
C6_JulianDayMonotonic ==
  (pc = "getJulianDay" /\ prev.valid /\ prev.date < date) => prev.ret < ret

\* C7: getLocalSiderealTime returns L with 0 <= L < 360.
C7_SiderealTimeInRange ==
  pc = "getLocalSiderealTime" => (0 <= ret /\ ret < FullCircle)

\* an instant before J2000, where the Greenwich angle is negative before it
\* is normalised, and a western longitude
C7_Witness ==
  /\ pc = "getLocalSiderealTime"
  /\ GreenwichRaw(getJulianDay(date, tzOffset)) < 0
  /\ longitude = -180 * Deg
  /\ ret < 180 * Deg

\* C8: for a northern observer the result of getVisibleConstellations
\* contains at least one of the five northern circumpolar names.
C8_NorthernCircumpolarPresent ==
  (pc = "getVisibleConstellations" /\ latitude >= 0) =>
    \E i \in 1..Len(ret) : Includes(circumNorth, ret[i])

\* C11: when getMoonPhase gives phase 0 at an instant t0 (to within one tick
\* of the instants examined), before or after the reference new moon, then
\* at t0 + 15 days it gives the name "Full Moon" and an illumination of at
\* least 0.95.
C11_FullMoonAfter15Days ==
  (pc = "getMoonPhase" /\ prev.valid /\ date = prev.date + 15 * SecondsPerDay
     /\ Abs(prev.ret.phase) <= TickUnits)
    => (ret.name = "Full Moon" /\ 20 * ret.illumination >= 19 * IllumOne)

(***************************************************************************)
(* The renderer alone, over phase arguments inside and outside [0,1).      *)
(***************************************************************************)
\* phase arguments are w + k / PhaseGrid for w in -1 .. 1 and k in 0 .. PhaseGrid,
\* and the phases 0.5, -0.5 and 1.5 themselves
PhaseGrid == 100

PhaseArgs ==
  { w * LunarCycle + (k * LunarCycle) \div PhaseGrid : w \in -1..1, k \in 0..PhaseGrid }
    \cup { w * LunarCycle + LunarCycle \div 2 : w \in -1..1 }

InitSvg ==
  /\ tzOffset = 0
  /\ date = Epoch2000
  /\ latitude = 0
  /\ longitude = 0
  /\ phaseArg \in PhaseArgs
  /\ pc = "idle"
  /\ ret = 0
  /\ prev = NoPrev
  /\ OthersIdle

\* generateMoonPhaseSVG(phaseArg)
GenerateMoonPhaseSVG ==
  /\ pc = "idle"
  /\ pc' = "generateMoonPhaseSVG"
  /\ ret' = generateMoonPhaseSVG(phaseArg)
  /\ UNCHANGED <<tzOffset, date, latitude, longitude, phaseArg, prev, others>>

NextSvg == GenerateMoonPhaseSVG

SpecSvg == InitSvg /\ [][NextSvg]_vars

\* C10: for a phase that is 0 after normalisation (0, 1, -1) the graphic is
\* one dark disc and nothing else; for phase 0.5 it is one light disc and
\* nothing else.
C10_NewAndFullAreSingleDiscs ==
  pc = "generateMoonPhaseSVG" =>
    /\ phaseArg % LunarCycle = 0 =>
         (Len(ret) = 1 /\ ret[1].shape = "circle" /\ ret[1].fill = "black")
    /\ 2 * phaseArg = LunarCycle =>
         (Len(ret) = 1 /\ ret[1].shape = "circle" /\ ret[1].fill = "white")

\* phase 0.5 has been drawn
C10_Witness ==
  /\ pc = "generateMoonPhaseSVG"
  /\ 2 * phaseArg = LunarCycle
  /\ ret = << Circle("white") >>

\* phase -1 has been drawn
C10_WitnessNew ==
  /\ pc = "generateMoonPhaseSVG"
  /\ phaseArg = -LunarCycle
  /\ ret = << Circle("black") >>

(***************************************************************************)
(* The UI's moon phase (utils/moonPhase): getMoonPhaseByDay.               *)
(* dayOfCycle is carried in hundredths of a day, the illumination in       *)
(* tenths of a percent and the age in tenths of a day (toFixed(1)).        *)
(***************************************************************************)
MOON_PHASE_NAMES ==
  << "New Moon", "Waxing Crescent", "First Quarter", "Waxing Gibbous",
     "Full Moon", "Waning Gibbous", "Last Quarter", "Waning Crescent" >>

\* by code point
MOON_PHASE_EMOJIS ==
  << "U+1F311", "U+1F312", "U+1F313", "U+1F314",
     "U+1F315", "U+1F316", "U+1F317", "U+1F318" >>

\* an index outside the array reads undefined
ArrayAt(array, index) ==
  IF 0 <= index /\ index < Len(array) THEN array[index + 1] ELSE "undefined"

\* lunarCycleDays = 29.53, in hundredths of a day
LunarCycleDays == 2953

\* Math.floor(((elongation + 22.5) % 360) / 45) for
\* elongation = (normalizedDay / lunarCycleDays) * 360: over the denominator
\* 2 * lunarCycleDays the sum elongation + 22.5 is 720 * normalizedDay + 45 * 2953
PhaseIndexByDay(normalizedDay) ==
  LET den == 2 * LunarCycleDays
      sum == 720 * normalizedDay + 45 * LunarCycleDays
  IN  JsRem(sum, 360 * den) \div (45 * den)

\* parseFloat((50 * (1 - Math.cos(elongation * Math.PI / 180))).toFixed(1))
IlluminationByDay(normalizedDay) ==
  (500 * (CosOne - Cos2Pi(normalizedDay, LunarCycleDays)) + CosOne \div 2) \div CosOne

\* parseFloat(normalizedDay.toFixed(1))
AgeByDay(normalizedDay) ==
  IF normalizedDay >= 0 THEN (normalizedDay + 5) \div 10
  ELSE -((-normalizedDay + 5) \div 10)

\* date.setDate(date.getDate() + dayOfCycle): the day count is truncated
SetDateForward(today, n) ==
  today + (IF n >= 0 THEN n \div 100 ELSE -((-n) \div 100)) * SecondsPerDay

getMoonPhaseByDay(n, today) ==
  LET normalizedDay == JsRem(n, LunarCycleDays)
      phaseIndex    == PhaseIndexByDay(normalizedDay)
  IN  [phase        |-> ArrayAt(MOON_PHASE_NAMES, phaseIndex),
       illumination |-> IlluminationByDay(normalizedDay),
       emoji        |-> ArrayAt(MOON_PHASE_EMOJIS, phaseIndex),
       age          |-> AgeByDay(normalizedDay),
       date         |-> SetDateForward(today, n)]

\* the days examined: UiCycles cycles to either side of day 0
UiCycles == 2
DaysOfCycle == (-UiCycles * LunarCycleDays)..(UiCycles * LunarCycleDays)

InitUi ==
  /\ tzOffset = 0
  /\ date = Epoch2000
  /\ latitude = 0
  /\ longitude = 0
  /\ phaseArg = 0
  /\ pc = "idle"
  /\ ret = 0
  /\ prev = NoPrev
  /\ dayOfCycle \in DaysOfCycle
  /\ req = NoRequest
  /\ cache = << >>
  /\ ipRequestCounts = << >>
  /\ now = 0
  /\ coreCalls = {}
  /\ handled = 0
  /\ constellations = << >>
  /\ passed = << >>
  /\ apiCache = << >>

\* getMoonPhaseByDay(dayOfCycle), the host clock reading date
GetMoonPhaseByDay ==
  /\ pc = "idle"
  /\ pc' = "getMoonPhaseByDay"
  /\ ret' = getMoonPhaseByDay(dayOfCycle, date)
  /\ UNCHANGED <<tzOffset, date, latitude, longitude, phaseArg, prev, others>>

NextUi == GetMoonPhaseByDay

SpecUi == InitUi /\ [][NextUi]_vars

\* the engine's phase numerator for the fraction normalizedDay / 29.53 of the
\* cycle (LunarCycle = 6000 * 2953 + 354)
C12_EnginePhase(normalizedDay) ==
  (LunarCycle \div LunarCycleDays) * normalizedDay
    + ((LunarCycle % LunarCycleDays) * normalizedDay) \div LunarCycleDays

\* C12: for a day of the cycle in [0, 29.53) getMoonPhaseByDay returns the
\* name and the emoji that the engine's getMoonPhase gives to the same
\* fraction of the cycle.
C12_UiMatchesEngine ==
  (pc = "getMoonPhaseByDay" /\ 0 <= dayOfCycle /\ dayOfCycle < LunarCycleDays) =>
    /\ ret.phase = PhaseName(C12_EnginePhase(dayOfCycle))
    /\ ret.emoji = PhaseEmoji(C12_EnginePhase(dayOfCycle))

(***************************************************************************)
(* Values of a JSON request body.  A string is the sequence of its         *)
(* characters; a number is carried in the scale of its use.                *)
(***************************************************************************)
Undefined == [type |-> "undefined"]
Number(v) == [type |-> "number", num |-> v]
String(chars) == [type |-> "string", chars |-> chars]

\* the result of parseInt / parseFloat
NaN == [nan |-> TRUE, v |-> 0]
Num(v) == [nan |-> FALSE, v |-> v]

\* ToBoolean: undefined, 0 and "" are falsy
Truthy(x) ==
  CASE x.type = "undefined" -> FALSE
    [] x.type = "number" -> x.num # 0
    [] x.type = "string" -> x.chars # << >>

Digits == << "0", "1", "2", "3", "4", "5", "6", "7", "8", "9" >>
IsDigit(c) == \E i \in 1..Len(Digits) : Digits[i] = c
DigitValue(c) == (CHOOSE i \in 1..Len(Digits) : Digits[i] = c) - 1

\* String(n) for an integer n >= 0
RECURSIVE ToDigits(_)
ToDigits(n) ==
  IF n < 10 THEN << Digits[n + 1] >>
  ELSE Append(ToDigits(n \div 10), Digits[(n % 10) + 1])

\* String(n).padStart(2, '0')
PadStart2(n) == IF n < 10 THEN << "0" >> \o ToDigits(n) ELSE ToDigits(n)

\* `${year}-${month}-${day}` of padded month and day
DateText(year, month, day) ==
  ToDigits(year) \o << "-" >> \o PadStart2(month) \o << "-" >> \o PadStart2(day)

\* String.prototype.trim
RECURSIVE TrimStart(_)
TrimStart(s) ==
  IF s # << >> /\ Head(s) = " " THEN TrimStart(Tail(s)) ELSE s
RECURSIVE TrimEnd(_)
TrimEnd(s) ==
  IF s # << >> /\ s[Len(s)] = " " THEN TrimEnd(SubSeq(s, 1, Len(s) - 1)) ELSE s
Trim(s) == TrimEnd(TrimStart(s))

\* the characters of /[<>\\\/\"\']/
Dangerous == { "<", ">", "\\", "/", "\"", "'" }

\* validateUserInput: trim, drop the dangerous characters, keep 100 characters
validateUserInput(input) ==
  LET sanitized == SelectSeq(Trim(input), LAMBDA c : c \notin Dangerous)
  IN  SubSeq(sanitized, 1, IF Len(sanitized) < 100 THEN Len(sanitized) ELSE 100)

\* String.prototype.split('-')
RECURSIVE Split(_, _)
Split(s, piece) ==
  IF s = << >> THEN << piece >>
  ELSE IF Head(s) = "-" THEN << piece >> \o Split(Tail(s), << >>)
  ELSE Split(Tail(s), Append(piece, Head(s)))

\* the value of the leading digits of s, after the digits read so far
RECURSIVE DigitsValue(_, _)
DigitsValue(s, acc) ==
  IF s # << >> /\ IsDigit(Head(s))
  THEN DigitsValue(Tail(s), 10 * acc + DigitValue(Head(s)))
  ELSE acc

RECURSIVE DropDigits(_)
DropDigits(s) == IF s # << >> /\ IsDigit(Head(s)) THEN DropDigits(Tail(s)) ELSE s

\* parseInt(s, 10): leading blanks, a sign, then the longest run of digits
parseInt(s) ==
  LET t      == TrimStart(s)
      signed == t # << >> /\ Head(t) \in {"+", "-"}
      body   == IF signed THEN Tail(t) ELSE t
  IN  IF body = << >> \/ ~IsDigit(Head(body)) THEN NaN
      ELSE IF signed /\ Head(t) = "-" THEN Num(-DigitsValue(body, 0))
      ELSE Num(DigitsValue(body, 0))

\* the first four decimals after the point, in units of 0.0001
RECURSIVE FractionValue(_, _)
FractionValue(s, scale) ==
  IF s # << >> /\ IsDigit(Head(s)) /\ scale > 0
  THEN DigitValue(Head(s)) * scale + FractionValue(Tail(s), scale \div 10)
  ELSE 0

\* parseFloat of a string, in units of 0.0001: leading blanks, a sign, digits,
\* a point and digits; NaN when no digit is found.  Exponents are not read.
ParseFloatString(s) ==
  LET t      == TrimStart(s)
      signed == t # << >> /\ Head(t) \in {"+", "-"}
      body   == IF signed THEN Tail(t) ELSE t
      rest   == DropDigits(body)
      hasInt == body # << >> /\ IsDigit(Head(body))
      frac   == IF rest # << >> /\ Head(rest) = "." THEN Tail(rest) ELSE << >>
      hasFrac == frac # << >> /\ IsDigit(Head(frac))
      value  == DigitsValue(body, 0) * Deg + FractionValue(frac, Deg \div 10)
  IN  IF ~hasInt /\ ~hasFrac THEN NaN
      ELSE IF signed /\ Head(t) = "-" THEN Num(-value)
      ELSE Num(value)

\* parseFloat(x): x is converted to a string first
parseFloat(x) ==
  CASE x.type = "number" -> Num(x.num)
    [] x.type = "string" -> ParseFloatString(x.chars)
    [] x.type = "undefined" -> NaN

\* String.prototype.toLowerCase, letter by letter
UpperLetters ==
  << "A", "B", "C", "D", "E", "F", "G", "H", "I", "J", "K", "L", "M",
     "N", "O", "P", "Q", "R", "S", "T", "U", "V", "W", "X", "Y", "Z" >>
LowerLetters ==
  << "a", "b", "c", "d", "e", "f", "g", "h", "i", "j", "k", "l", "m",
     "n", "o", "p", "q", "r", "s", "t", "u", "v", "w", "x", "y", "z" >>
LowerCase(c) ==
  IF \E i \in 1..Len(UpperLetters) : UpperLetters[i] = c
  THEN LowerLetters[CHOOSE i \in 1..Len(UpperLetters) : UpperLetters[i] = c]
  ELSE c
toLowerCase(s) == [i \in 1..Len(s) |-> LowerCase(s[i])]

(***************************************************************************)
(* new Date(year, monthIndex, day): local midnight of the day, with the    *)
(* overflow of month and day carried into the next fields.                 *)
(***************************************************************************)
\* days since 1970-01-01 of the civil date year-month-day, month in 1..12
DaysFromCivil(year, month, day) ==
  LET y   == IF month <= 2 THEN year - 1 ELSE year
      era == y \div 400
      yoe == y - era * 400
      mp  == IF month > 2 THEN month - 3 ELSE month + 9
      doy == (153 * mp + 2) \div 5 + day - 1
      doe == yoe * 365 + yoe \div 4 - yoe \div 100 + doy
  IN  era * 146097 + doe - 719468

\* MakeDay: monthIndex outside 0..11 moves the year, day outside the month
\* moves the month
MakeDay(year, monthIndex, day) ==
  DaysFromCivil(year + monthIndex \div 12, (monthIndex % 12) + 1, 1) + day - 1

\* a year 0..99 means 1900 + year; a NaN field gives an Invalid Date
NewDate(year, monthIndex, day, tz) ==
  IF year.nan \/ monthIndex.nan \/ day.nan THEN NaN
  ELSE LET fullYear == IF 0 <= year.v /\ year.v <= 99 THEN 1900 + year.v ELSE year.v
       IN  Num(MakeDay(fullYear, monthIndex.v, day.v) * SecondsPerDay - tz * 3600)

(***************************************************************************)
(* generateStarMapSVG.  The graphic is the sequence of its elements in     *)
(* drawing order; the coordinates of a constellation are carried in units  *)
(* of 1/CosOne pixel, the latitude factor in thousandths.                  *)
(***************************************************************************)
SvgWidth == 500
SvgHeight == 300

constellationData ==
  << [name |-> "Orion",
      stars |-> << <<250, 110>>, <<270, 100>>, <<290, 120>>, <<260, 150>>,
                  <<230, 150>>, <<220, 120>>, <<240, 130>>, <<270, 70>> >>,
      lines |-> << <<0, 1>>, <<1, 2>>, <<2, 3>>, <<3, 4>>, <<4, 5>>, <<5, 0>>,
                  <<6, 0>>, <<6, 3>>, <<1, 7>> >>],
     [name |-> "Ursa Major",
      stars |-> << <<150, 80>>, <<180, 70>>, <<210, 60>>, <<240, 50>>,
                  <<250, 80>>, <<220, 100>>, <<190, 110>> >>,
      lines |-> << <<0, 1>>, <<1, 2>>, <<2, 3>>, <<3, 4>>, <<4, 5>>, <<5, 6>>,
                  <<6, 0>> >>],
     [name |-> "Cassiopeia",
      stars |-> << <<300, 50>>, <<330, 40>>, <<360, 50>>, <<350, 80>>,
                  <<320, 70>> >>,
      lines |-> << <<0, 1>>, <<1, 2>>, <<2, 3>>, <<3, 4>>, <<4, 0>> >>],
     [name |-> "Leo",
      stars |-> << <<120, 150>>, <<150, 130>>, <<180, 120>>, <<200, 140>>,
                  <<170, 160>>, <<140, 170>>, <<170, 190>> >>,
      lines |-> << <<0, 1>>, <<1, 2>>, <<2, 3>>, <<3, 4>>, <<4, 5>>, <<5, 0>>,
                  <<4, 6>> >>],
     [name |-> "Scorpius",
      stars |-> << <<350, 170>>, <<360, 190>>, <<370, 210>>, <<380, 230>>,
                  <<390, 250>>, <<410, 260>>, <<400, 240>>, <<420, 230>>,
                  <<430, 210>> >>,
      lines |-> << <<0, 1>>, <<1, 2>>, <<2, 3>>, <<3, 4>>, <<4, 5>>, <<4, 6>>,
                  <<6, 7>>, <<7, 8>> >>],
     [name |-> "Cygnus",
      stars |-> << <<230, 50>>, <<240, 70>>, <<250, 90>>, <<260, 110>>,
                  <<270, 130>>, <<220, 90>>, <<280, 90>> >>,
      lines |-> << <<0, 1>>, <<1, 2>>, <<2, 3>>, <<3, 4>>, <<2, 5>>, <<2, 6>> >>],
     [name |-> "Lyra",
      stars |-> << <<310, 90>>, <<330, 100>>, <<320, 120>>, <<300, 110>>,
                  <<290, 100>> >>,
      lines |-> << <<0, 1>>, <<1, 2>>, <<2, 3>>, <<3, 4>>, <<4, 0>> >>],
     [name |-> "Gemini",
      stars |-> << <<140, 130>>, <<160, 120>>, <<180, 110>>, <<200, 120>>,
                  <<220, 130>>, <<170, 150>>, <<190, 160>> >>,
      lines |-> << <<0, 1>>, <<1, 2>>, <<2, 3>>, <<3, 4>>, <<0, 5>>, <<4, 6>> >>],
     [name |-> "Taurus",
      stars |-> << <<130, 170>>, <<150, 160>>, <<170, 150>>, <<190, 160>>,
                  <<155, 175>>, <<175, 185>> >>,
      lines |-> << <<0, 1>>, <<1, 2>>, <<2, 3>>, <<1, 4>>, <<2, 5>> >>],
     [name |-> "Canis Major",
      stars |-> << <<330, 200>>, <<340, 220>>, <<320, 230>>, <<310, 210>>,
                  <<350, 240>> >>,
      lines |-> << <<0, 1>>, <<1, 4>>, <<0, 2>>, <<0, 3>> >>],
     [name |-> "Ursa Minor",
      stars |-> << <<100, 50>>, <<120, 40>>, <<140, 30>>, <<160, 20>>,
                  <<158, 40>>, <<138, 50>>, <<118, 60>> >>,
      lines |-> << <<0, 1>>, <<1, 2>>, <<2, 3>>, <<3, 4>>, <<4, 5>>, <<5, 6>>,
                  <<6, 0>> >>],
     [name |-> "Crux",
      stars |-> << <<240, 250>>, <<250, 230>>, <<230, 230>>, <<260, 270>> >>,
      lines |-> << <<0, 1>>, <<2, 0>>, <<0, 3>> >>],
     [name |-> "Centaurus",
      stars |-> << <<280, 240>>, <<300, 250>>, <<320, 260>>, <<290, 270>>,
                  <<270, 260>>, <<260, 280>> >>,
      lines |-> << <<0, 1>>, <<1, 2>>, <<1, 3>>, <<3, 4>>, <<4, 5>> >>] >>

defaultConstellation ==
  [name |-> "default",
   stars |-> << <<100, 100>>, <<120, 80>>, <<140, 100>>, <<120, 120>> >>,
   lines |-> << <<0, 1>>, <<1, 2>>, <<2, 3>>, <<3, 0>> >>]

\* constellationData is an object literal: a lookup that finds no own
\* property goes on to Object.prototype, whose properties are functions
\* (__proto__: the prototype itself), all truthy and without stars
ObjectPrototype ==
  { "constructor", "hasOwnProperty", "isPrototypeOf", "propertyIsEnumerable",
    "toLocaleString", "toString", "valueOf", "__proto__", "__defineGetter__",
    "__defineSetter__", "__lookupGetter__", "__lookupSetter__" }

\* constellationData[constellation] || defaultConstellation
ConData(constellation) ==
  IF \E i \in 1..Len(constellationData) : constellationData[i].name = constellation
  THEN constellationData[CHOOSE i \in 1..Len(constellationData) :
                           constellationData[i].name = constellation]
  ELSE IF constellation \in ObjectPrototype
  THEN [name |-> constellation, inherited |-> TRUE]
  ELSE defaultConstellation

\* conData.stars[0] of an inherited property: Cannot read properties of
\* undefined (reading '0'); the exception leaves the function
TypeError == << [shape |-> "TypeError"] >>

\* getStarField and the loop over bgStars: star i of the field, i from 0;
\* the radius is carried in halves, the opacity in thousandths
StarFieldCount == 200
BackgroundStar(dateNum, i) ==
  LET seed  == (dateNum * (i + 1)) % 997
      x     == seed % SvgWidth
      y     == (seed * 13) % SvgHeight
      twice == 1 + ((x * y) % 3)
  IN  [shape |-> "circle", cx |-> x, cy |-> y, r2 |-> twice,
       fill |-> "white", opacity |-> 300 + 175 * twice]

\* (90 - Math.abs(lat)) / 90, in thousandths
LatOffset(lat) == ((90 * Deg - Abs(lat)) * 1000) \div (90 * Deg)

\* (Math.sin(hourAngle) * 50 - 25) * latOffset for hourAngle = (jd % 1) * 360
XOffset(jd, lat) ==
  ((Sin2Pi(jd % Unit, Unit) * 50 - 25 * CosOne) * LatOffset(lat)) \div 1000
\* (Math.cos(hourAngle) * 30 - 15) * latOffset
YOffset(jd, lat) ==
  ((Cos2Pi(jd % Unit, Unit) * 30 - 15 * CosOne) * LatOffset(lat)) \div 1000

\* the label, the lines and the stars of one constellation
ConstellationElements(constellation, xOffset, yOffset) ==
  LET conData == ConData(constellation)
      X(s)    == conData.stars[s + 1][1] * CosOne + xOffset
      Y(s)    == conData.stars[s + 1][2] * CosOne + yOffset
  IN  << [shape |-> "text", x |-> X(0), y |-> Y(0) - 15 * CosOne,
          fill |-> "white", text |-> constellation] >>
      \o [k \in 1..Len(conData.lines) |->
            [shape |-> "line",
             x1 |-> X(conData.lines[k][1]), y1 |-> Y(conData.lines[k][1]),
             x2 |-> X(conData.lines[k][2]), y2 |-> Y(conData.lines[k][2]),
             stroke |-> "white"]]
      \o [k \in 1..Len(conData.stars) |->
            [shape |-> "circle", cx |-> X(k - 1), cy |-> Y(k - 1),
             r2 |-> 2 * (2 + ((k - 1) % 3)), fill |-> "white"]]

RECURSIVE AllConstellationElements(_, _, _)
AllConstellationElements(names, xOffset, yOffset) ==
  IF names = << >> THEN << >>
  ELSE ConstellationElements(Head(names), xOffset, yOffset)
         \o AllConstellationElements(Tail(names), xOffset, yOffset)

generateStarMapSVG(names, d, tz, lat, lng) ==
  LET dateNum == getDate(d, tz) + getMonth(d, tz) * 31 + getFullYear(d, tz) * 372
      jd      == getJulianDay(d, tz)
  IN  IF \E i \in 1..Len(names) : names[i] \in ObjectPrototype
      THEN TypeError
      ELSE << [shape |-> "rect", width |-> SvgWidth, height |-> SvgHeight,
               fill |-> "black"] >>
           \o [i \in 1..StarFieldCount |-> BackgroundStar(dateNum, i - 1)]
           \o AllConstellationElements(names, XOffset(jd, lat), YOffset(jd, lat))

(***************************************************************************)
(* The star-map API handler (pages/api/astronomy/starmap).                 *)
(***************************************************************************)
\* the default location, Manassas, VA
DefaultLatitude == 387500
DefaultLongitude == -774800
\* the default of moonLightColor
DefaultMoonColor == << "#", "F", "F", "F", "D", "E", "7" >>
PureWhite == << "#", "f", "f", "f", "f", "f", "f" >>

months ==
  << "January", "February", "March", "April", "May", "June",
     "July", "August", "September", "October", "November", "December" >>

\* formatDate: month name, day with its ordinal suffix, year
formatDate(d, tz) ==
  LET day           == getDate(d, tz)
      lastDigit     == day % 10
      lastTwoDigits == day % 100
      suffix == IF lastTwoDigits < 11 \/ lastTwoDigits > 13
                THEN IF lastDigit = 1 THEN "st"
                     ELSE IF lastDigit = 2 THEN "nd"
                     ELSE IF lastDigit = 3 THEN "rd"
                     ELSE "th"
                ELSE "th"
  IN  [month |-> months[getMonth(d, tz) + 1], day |-> day, suffix |-> suffix,
       year |-> getFullYear(d, tz)]

\* isHistoricalDate: the date lies before the host clock set back one month
isHistoricalDate(d, clock, tz) ==
  LET local       == clock + tz * 3600
      civil       == CivilFromDays(local \div SecondsPerDay)
      oneMonthAgo == MakeDay(civil.year, civil.month - 2, civil.day) * SecondsPerDay
                       + (local % SecondsPerDay) - tz * 3600
  IN  d < oneMonthAgo

\* number.toFixed(2) of a coordinate: sign and hundredths
toFixed2(v) == [negative |-> v < 0, hundredths |-> (Abs(v) + 50) \div 100]

\* createResponseHash: the digest of the stable JSON text stands for the text
createResponseHash(params) == params

\* the fill colours as they are written into the graphic's text
FillText(fill) ==
  CASE fill = "white" -> << "w", "h", "i", "t", "e" >>
    [] fill = "black" -> << "b", "l", "a", "c", "k" >>

\* no replacement: every fill stays as the renderer wrote it
ReplaceWhite_Keep(svg, colour) ==
  [i \in 1..Len(svg) |-> [svg[i] EXCEPT !.fill = FillText(@)]]

\* moonPhaseSvg.replace(/fill="white"/g, `fill="${colour}"`)
ReplaceWhite(svg, colour) ==
  [i \in 1..Len(svg) |->
     [svg[i] EXCEPT !.fill = IF @ = "white" THEN colour ELSE FillText(@)]]

\* the graphic as it is when nothing is replaced
SvgText(svg) == [i \in 1..Len(svg) |-> [svg[i] EXCEPT !.fill = FillText(@)]]

CorsHeaders ==
  { <<"Access-Control-Allow-Origin", "*">>,
    <<"Access-Control-Allow-Methods", "POST, OPTIONS">>,
    <<"Access-Control-Allow-Headers", "Content-Type">> }

Outcome(status, headers, body, newCache, calls) ==
  [res   |-> [status |-> status, headers |-> CorsHeaders \cup headers, body |-> body],
   cache |-> newCache,
   calls |-> calls]

Failure(status, error, message, c) ==
  Outcome(status, {}, [error |-> error, message |-> message], c, {})

\* the catch block: any exception is answered 500
Unexpected(c) ==
  Failure(500, "Failed to generate star map",
          "An unexpected error occurred. Please try again later.", c)

Call(fn, args) == [fn |-> fn, args |-> args]

\* lines 120-125
CacheKey(dateObj, lat, lng, sanitizedMoonColor, tz) ==
  createResponseHash(
    [date |-> DateText(getFullYear(dateObj, tz), getMonth(dateObj, tz) + 1,
                       getDate(dateObj, tz)),
     latitude |-> toFixed2(lat),
     longitude |-> toFixed2(lng),
     moonLightColor |-> sanitizedMoonColor])

\* line 147
PlanetPositions(visiblePlanetsData) ==
  [i \in 1..Len(visiblePlanetsData) |->
     [name      |-> visiblePlanetsData[i].name,
      position  |-> visiblePlanetsData[i].description,
      magnitude |-> visiblePlanetsData[i].magnitude,
      isVisible |-> visiblePlanetsData[i].isVisible]]

\* lines 155-160
MoonPhaseSvg(plainSvg, sanitizedMoonColor) ==
  IF sanitizedMoonColor # << >> /\ toLowerCase(sanitizedMoonColor) # PureWhite
  THEN ReplaceWhite(plainSvg, sanitizedMoonColor)
  ELSE SvgText(plainSvg)

\* lines 155-183: the response of a miss, from the three results of line 140
ResponseData(dateObj, lat, lng, sanitizedLocation, sanitizedMoonColor, tz, moonPhaseData, visibleConstellations, visiblePlanetsData) ==
  [date           |-> DateText(getFullYear(dateObj, tz), getMonth(dateObj, tz) + 1,
                               getDate(dateObj, tz)),
   formattedDate  |-> formatDate(dateObj, tz),
   location       |-> sanitizedLocation,
   moonPhase      |-> [name         |-> moonPhaseData.name,
                       illumination |-> moonPhaseData.illumination,
                       emoji        |-> moonPhaseData.emoji,
                       svgPath      |-> MoonPhaseSvg(
                                          generateMoonPhaseSVG(moonPhaseData.phase),
                                          sanitizedMoonColor)],
   constellations |-> visibleConstellations,
   planets        |-> PlanetPositions(visiblePlanetsData),
   starMapSvg     |-> generateStarMapSVG(visibleConstellations, dateObj, tz, lat, lng)]

\* the engine calls of a miss, lines 140-163
Calls(dateObj, lat, lng, moonPhaseData) ==
  { Call("getMoonPhase", <<dateObj>>),
    Call("getVisibleConstellations", <<dateObj, lat, lng>>),
    Call("getVisiblePlanets", <<dateObj, lat, lng>>),
    Call("generateMoonPhaseSVG", <<moonPhaseData.phase>>),
    Call("generateStarMapSVG", <<dateObj, lat, lng>>) }

\* lines 127-134 and 186-197: the cached response on a hit; on a miss the
\* computed one, which is stored
Respond(cacheKey, responseData, historical, calls, c) ==
  IF cacheKey \in DOMAIN c
  THEN Outcome(200, { <<"X-Cache", "HIT">>,
                      <<"Cache-Control", "public, max-age=3600">> },
               c[cacheKey].data, c, {})
  \* an exception of the renderer reaches the catch block
  ELSE IF responseData.starMapSvg = TypeError
  THEN Unexpected(c)
  ELSE Outcome(200, { <<"X-Cache", "MISS">>,
                      <<"Cache-Control", IF historical THEN "public, max-age=86400"
                                         ELSE "public, max-age=3600">> },
               responseData,
               [k \in DOMAIN c \cup {cacheKey} |->
                  IF k = cacheKey
                  THEN [data |-> responseData,
                        ttl  |-> IF historical THEN 604800 ELSE 1800]
                  ELSE c[k]],
               calls)

\* lines 127-208: the cache lookup and, on a miss, the computation
Compute(dateObj, lat, lng, sanitizedLocation, sanitizedMoonColor, tz, clock, c) ==
  Respond(CacheKey(dateObj, lat, lng, sanitizedMoonColor, tz),
          ResponseData(dateObj, lat, lng, sanitizedLocation, sanitizedMoonColor, tz,
                       getMoonPhase(dateObj, tz),
                       getVisibleConstellations(dateObj, tz, lat, lng),
                       getVisiblePlanets(dateObj, tz, lat, lng)),
          isHistoricalDate(dateObj, clock, tz),
          Calls(dateObj, lat, lng, getMoonPhase(dateObj, tz)),
          c)

\* lines 103-112: the coordinates, then the rest
WithDate(dateObj, body, sanitizedLocation, sanitizedMoonColor, tz, clock, c) ==
  LET lat == IF Truthy(body.latitude) THEN parseFloat(body.latitude)
             ELSE Num(DefaultLatitude)
      lng == IF Truthy(body.longitude) THEN parseFloat(body.longitude)
             ELSE Num(DefaultLongitude)
  IN  IF lat.nan \/ lng.nan \/ lat.v < -90 * Deg \/ lat.v > 90 * Deg
           \/ lng.v < -180 * Deg \/ lng.v > 180 * Deg
      THEN Failure(400, "Invalid coordinates",
                   "Latitude must be between -90 and 90, longitude between -180 and 180", c)
      ELSE Compute(dateObj.v, lat.v, lng.v, sanitizedLocation, sanitizedMoonColor,
                   tz, clock, c)

\* lines 77-101: the sanitised inputs and the date
WithBody(body, tz, clock, c) ==
  LET moonLightColor == IF body.moonLightColor.type = "undefined"
                        THEN String(DefaultMoonColor) ELSE body.moonLightColor
      colourArg      == IF Truthy(moonLightColor) THEN moonLightColor
                        ELSE String(DefaultMoonColor)
  IN  IF ~Truthy(body.date)
      THEN Failure(400, "Missing required parameter", "Date is required", c)
      \* input.trim is not a function
      ELSE IF body.date.type # "string"
                \/ (Truthy(body.location) /\ body.location.type # "string")
                \/ colourArg.type # "string"
      THEN Unexpected(c)
      ELSE
        LET sanitizedDate      == validateUserInput(body.date.chars)
            sanitizedLocation  == IF Truthy(body.location)
                                  THEN String(validateUserInput(body.location.chars))
                                  ELSE Undefined
            sanitizedMoonColor == validateUserInput(colourArg.chars)
            pieces    == Split(sanitizedDate, << >>)
            dateParts == [i \in 1..Len(pieces) |-> parseInt(pieces[i])]
        IN  IF Len(dateParts) # 3
            THEN Failure(400, "Invalid date format",
                         "Please provide a date in YYYY-MM-DD format", c)
            ELSE
              LET inputMonth == dateParts[2]
                  monthIndex == IF inputMonth.nan THEN NaN ELSE Num(inputMonth.v - 1)
                  dateObj    == NewDate(dateParts[1], monthIndex, dateParts[3], tz)
              IN  IF dateObj.nan
                  THEN Failure(400, "Invalid date format",
                               "Please provide a valid date", c)
                  ELSE WithDate(dateObj, body, sanitizedLocation,
                                sanitizedMoonColor, tz, clock, c)

\* the handler: the response, the cache afterwards, the engine calls made
handler(request, tz, clock, c) ==
  IF request.method = "OPTIONS" THEN Outcome(200, {}, "end", c, {})
  ELSE IF request.method # "POST"
  THEN Failure(405, "Method not allowed", "Only POST requests are supported", c)
  ELSE WithBody(request.body, tz, clock, c)

(***************************************************************************)
(* Requests examined.                                                      *)
(***************************************************************************)
\* "YYYY-MM-DD" of three numbers
DateValue(year, month, day) == String(DateText(year, month, day))

DateInputs ==
  { DateValue(1999, 12, 25),            \* a date before J2000
    DateValue(2000, 2, 5),              \* a new moon
    DateValue(2000, 2, 30),             \* a day February lacks
    DateValue(2000, 13, 1),             \* month 13
    String(<< "2", "0", "0", "0", "-", "1", "-", "5", "x" >>),
    String(<< "2", "0", "0", "0", "-", "x", "x", "-", "1", "0" >>),
    String(<< "2", "0", "0", "0", "-", "0", "1" >>),
    Number(20000115),
    Undefined }

Red == String(<< "#", "F", "F", "0", "0", "0", "0" >>)

ColourInputs ==
  { Undefined,
    String(<< "#", "F", "F", "F", "F", "F", "F" >>),
    String(<< "#", "f", "f", "f", "f", "f", "f" >>),
    String(<< " ", "#", "F", "F", "F", "F", "F", "F", " " >>),
    Red,
    String(<< >>) }

LatitudeInputs ==
  { Undefined, Number(0), Number(-338700), Number(90 * Deg + 1),
    String(<< "4", "0", ".", "7", "1", "2", "8" >>),
    String(<< "a", "b", "c" >>),
    String(<< "1", "2", "a", "b", "c" >>),
    String(<< >>) }

LongitudeInputs ==
  { Undefined, Number(180 * Deg), Number(180 * Deg + 1), Number(-181 * Deg),
    String(<< "x", "y", "z" >>) }

LocationInputs ==
  { String(<< "<", "b", ">", "N", "Y", "<", "/", "b", ">" >>) }

\* New York on 2000-01-15, no location, no colour
BaseBody ==
  [date |-> DateValue(2000, 1, 15), latitude |-> Number(407128),
   longitude |-> Number(-740060), location |-> Undefined,
   moonLightColor |-> Undefined]

\* the base request, and every input varied against it
Bodies ==
  { [BaseBody EXCEPT !.date = d] : d \in DateInputs }
    \cup { [BaseBody EXCEPT !.moonLightColor = c] : c \in ColourInputs }
    \cup { [BaseBody EXCEPT !.date = DateValue(2000, 2, 5), !.moonLightColor = Red] }
    \cup { [BaseBody EXCEPT !.latitude = l] : l \in LatitudeInputs }
    \cup { [BaseBody EXCEPT !.longitude = g] : g \in LongitudeInputs }
    \cup { [BaseBody EXCEPT !.location = n] : n \in LocationInputs }

Requests ==
  { [method |-> "POST", body |-> b] : b \in Bodies }
    \cup { [method |-> m, body |-> BaseBody] : m \in {"GET", "OPTIONS"} }

\* the host clock during the requests: 2000-02-10T12:00:00Z
StarMapClock == Epoch2000 + 40 * SecondsPerDay + 12 * 3600

\* the number of requests answered in one run
MaxRequests == 2

InitStarMap ==
  /\ tzOffset \in TimeZones
  /\ date = StarMapClock
  /\ latitude = 0
  /\ longitude = 0
  /\ phaseArg = 0
  /\ pc = "idle"
  /\ ret = 0
  /\ prev = NoPrev
  /\ dayOfCycle = 0
  /\ req = NoRequest
  /\ cache = << >>
  /\ ipRequestCounts = << >>
  /\ now = 0
  /\ coreCalls = {}
  /\ handled = 0
  /\ constellations = << >>
  /\ passed = << >>
  /\ apiCache = << >>

\* one request to the star-map API
StarMapRequest ==
  /\ handled < MaxRequests
  /\ \E request \in Requests :
       \E outcome \in { handler(request, tzOffset, date, cache) } :
         /\ req' = request
         /\ ret' = outcome.res
         /\ cache' = outcome.cache
         /\ coreCalls' = outcome.calls
  /\ pc' = "handler"
  /\ handled' = handled + 1
  /\ UNCHANGED <<tzOffset, date, latitude, longitude, phaseArg, prev,
                 dayOfCycle, ipRequestCounts, now, constellations, passed, apiCache>>

NextStarMap == StarMapRequest

SpecStarMap == InitStarMap /\ [][NextStarMap]_vars

(***************************************************************************)
(* Properties of the star-map handler.                                     *)
(***************************************************************************)
\* the Date the handler builds from the date text of a response
ResponseDate ==
  LET parts == Split(ret.body.date, << >>)
  IN  NewDate(parseInt(parts[1]), Num(parseInt(parts[2]).v - 1),
              parseInt(parts[3]), tzOffset).v

Answered200 == pc = "handler" /\ req.method = "POST" /\ ret.status = 200

C14_White == << "w", "h", "i", "t", "e" >>
C14_Black == << "b", "l", "a", "c", "k" >>

\* #FFFFFF in any letter case
C14_IsPureWhite(colour) ==
  /\ Len(colour) = 7
  /\ colour[1] = "#"
  /\ \A i \in 2..7 : colour[i] \in {"f", "F"}

\* the moon graphic of the response is the renderer's graphic for the date
\* of the response, with every white fill written as the given colour
C14_GraphicWithWhiteAs(colour) ==
  LET plain == generateMoonPhaseSVG(getMoonPhase(ResponseDate, tzOffset).phase)
      svg   == ret.body.moonPhase.svgPath
  IN  /\ Len(svg) = Len(plain)
      /\ \A i \in 1..Len(svg) :
           /\ svg[i].shape = plain[i].shape
           /\ svg[i].fill = IF plain[i].fill = "white" THEN colour ELSE C14_Black

\* no element of the star map has another colour than the renderer's
C14_StarMapUntouched ==
  \A i \in 1..Len(ret.body.starMapSvg) :
    LET e == ret.body.starMapSvg[i]
    IN  IF e.shape = "line" THEN e.stroke = "white"
        ELSE IF e.shape = "rect" THEN e.fill = "black"
        ELSE e.fill = "white"

C15_IsNumber(x) ==
  \/ x.type = "number"
  \/ /\ x.type = "string"
     /\ ~ParseFloatString(x.chars).nan
     /\ \A i \in 1..Len(x.chars) : IsDigit(x.chars[i]) \/ x.chars[i] \in {"-", "+", "."}

\* a supplied coordinate that is not a number or lies outside [-limit, limit]
C15_BadCoordinate(x, limit) ==
  /\ x.type # "undefined"
  /\ \/ ~C15_IsNumber(x)
     \/ parseFloat(x).v < -limit
     \/ parseFloat(x).v > limit

\* C15: a star-map request whose latitude is outside [-90,90] or whose
\* longitude is outside [-180,180], or whose supplied coordinate is not a
\* number, is answered 400; no core function is evaluated and the cache is
\* left as it was.
C15_BadCoordinatesRejected ==
  [][ (handled' = handled + 1 /\ req'.method = "POST"
         /\ (C15_BadCoordinate(req'.body.latitude, 90 * Deg)
               \/ C15_BadCoordinate(req'.body.longitude, 180 * Deg)))
        => (ret'.status = 400 /\ coreCalls' = {} /\ cache' = cache) ]_vars

\* the calendar date that a date text denotes, if it denotes one: three
\* parts of digits only, a month 1..12 and a day that the month has
C16_AllDigits(part) == part # << >> /\ \A i \in 1..Len(part) : IsDigit(part[i])
C16_Named(chars) ==
  LET parts == Split(Trim(chars), << >>)
  IN  [year |-> DigitsValue(parts[1], 0), month |-> DigitsValue(parts[2], 0),
       day |-> DigitsValue(parts[3], 0)]
C16_Exists(chars) ==
  LET parts == Split(Trim(chars), << >>)
      named == C16_Named(chars)
  IN  /\ Len(parts) = 3
      /\ \A i \in 1..3 : C16_AllDigits(parts[i])
      /\ 1 <= named.month /\ named.month <= 12
      /\ 1 <= named.day
      /\ named.day <= MakeDay(named.year, named.month, 1)
                        - MakeDay(named.year, named.month - 1, 1)

\* C16: a date text that denotes no existing calendar date is answered 400
\* and no core function is evaluated; for any other date text the core is
\* evaluated only for the date it names.
C16_OnlyTheNamedDate ==
  (pc = "handler" /\ req.method = "POST" /\ req.body.date.type = "string") =>
    IF C16_Exists(req.body.date.chars)
    THEN \A c \in coreCalls :
           c.fn # "generateMoonPhaseSVG" =>
             LocalCivil(c.args[1], tzOffset) = C16_Named(req.body.date.chars)
    ELSE ret.status = 400 /\ coreCalls = {}

(***************************************************************************)
(* The API middleware (middleware.ts): rate limiting, the check for        *)
(* suspicious URLs, and the security headers.  The URL is the sequence of  *)
(* the characters of path and query; times are in milliseconds.            *)
(***************************************************************************)
API_RATE_LIMIT == 50
API_RATE_WINDOW == 60 * 1000

\* isRateLimited: the verdict and the map afterwards
isRateLimited(ip, clock, counts) ==
  LET currentData == IF ip \in DOMAIN counts THEN counts[ip]
                     ELSE [count |-> 0, timestamp |-> clock]
      Set(entry)  == [k \in DOMAIN counts \cup {ip} |->
                        IF k = ip THEN entry ELSE counts[k]]
      newCount    == currentData.count + 1
  IN  IF clock - currentData.timestamp > API_RATE_WINDOW
      THEN [limited |-> FALSE, counts |-> Set([count |-> 1, timestamp |-> clock])]
      ELSE [limited |-> newCount > API_RATE_LIMIT,
            counts  |-> Set([count |-> newCount,
                             timestamp |-> currentData.timestamp])]

\* the text tok stands in s at position i
StartsAt(s, i, tok) ==
  i >= 1 /\ i + Len(tok) - 1 <= Len(s) /\ SubSeq(s, i, i + Len(tok) - 1) = tok
Contains(s, tok) == \E i \in 1..Len(s) : StartsAt(s, i, tok)

\* [a-z0-9\%] of the XSS pattern, on a lower-cased text
IsTagChar(c) ==
  \/ IsDigit(c)
  \/ c = "%"
  \/ \E i \in 1..Len(LowerLetters) : LowerLetters[i] = c

\* the positions reached from i over ((\%2F)|\/)*
RECURSIVE AfterSlashes(_, _)
AfterSlashes(s, i) ==
  {i} \cup (IF StartsAt(s, i, << "/" >>) THEN AfterSlashes(s, i + 1) ELSE {})
      \cup (IF StartsAt(s, i, << "%", "2", "f" >>) THEN AfterSlashes(s, i + 3) ELSE {})

\* /((\%3C)|<)((\%2F)|\/)*[a-z0-9\%]+((\%3E)|>)/i
MatchesXss(url) ==
  LET s == toLowerCase(url)
  IN  \E i \in 1..Len(s) :
        \E open \in { << "<" >>, << "%", "3", "c" >> } :
          /\ StartsAt(s, i, open)
          /\ \E j \in AfterSlashes(s, i + Len(open)) :
               \E k \in j..Len(s) :
                 /\ \A m \in j..k : IsTagChar(s[m])
                 /\ \/ StartsAt(s, k + 1, << ">" >>)
                    \/ StartsAt(s, k + 1, << "%", "3", "e" >>)

\* hasSuspiciousPayload: one of the four patterns matches the URL
hasSuspiciousPayload(url) ==
  LET s == toLowerCase(url)
  IN  \/ \E tok \in { << "%", "2", "7" >>, << "'" >>, << "-", "-" >>,
                      << "%", "2", "3" >>, << "#" >> } : Contains(s, tok)
      \/ MatchesXss(url)
      \/ Contains(s, << "e", "t", "c", "/", "p", "a", "s", "s", "w", "d" >>)
      \/ Contains(s, << "/", "/", "+" >>)

SecurityHeaders ==
  { <<"X-Content-Type-Options", "nosniff">>,
    <<"X-Frame-Options", "DENY">>,
    <<"X-XSS-Protection", "1; mode=block">> }

\* the middleware: the response and the map afterwards; NextResponse.next()
\* (next = TRUE, status 200) lets the request through to its handler
middleware(request, clock, counts) ==
  IF StartsAt(request.pathname, 1, << "/", "a", "p", "i", "/" >>)
  THEN LET ip      == IF request.ip = "" THEN "unknown" ELSE request.ip
           limiter == isRateLimited(ip, clock, counts)
       IN  IF limiter.limited
           THEN [res |-> [status |-> 429, next |-> FALSE,
                          headers |-> { <<"Content-Type", "application/json">>,
                                        <<"Retry-After", "60">> },
                          body |-> "Rate limit exceeded. Please try again later."],
                 counts |-> limiter.counts]
           ELSE IF hasSuspiciousPayload(request.pathname \o request.search)
           THEN [res |-> [status |-> 403, next |-> FALSE,
                          headers |-> { <<"Content-Type", "application/json">> },
                          body |-> "Request denied for security reasons."],
                 counts |-> limiter.counts]
           ELSE [res |-> [status |-> 200, next |-> TRUE,
                          headers |-> SecurityHeaders, body |-> ""],
                 counts |-> limiter.counts]
  ELSE [res |-> [status |-> 200, next |-> TRUE, headers |-> {}, body |-> ""],
        counts |-> counts]

StarMapPath ==
  << "/", "a", "p", "i", "/", "a", "s", "t", "r", "o", "n", "o", "m", "y",
     "/", "s", "t", "a", "r", "m", "a", "p" >>
ApodPath == << "/", "a", "p", "i", "/", "n", "a", "s", "a", "/", "a", "p", "o", "d" >>

\* the URLs examined: a plain API call, one with a quote, one with a tag,
\* one reaching for etc/passwd, and a page outside /api/
Urls ==
  { [pathname |-> StarMapPath, search |-> << >>],
    [pathname |-> ApodPath, search |-> << "?", "d", "=", "'", "1" >>],
    [pathname |-> ApodPath,
     search |-> << "?", "d", "=", "%", "3", "C", "b", ">" >>],
    [pathname |-> << "/", "a", "p", "i", "/", "E", "t", "c", "/", "p", "a", "s",
                     "s", "w", "d" >>,
     search |-> << >>],
    [pathname |-> << "/", "a", "b", "o", "u", "t" >>, search |-> << >>] }

\* client addresses; "" when the platform gives none
ClientIps == { "203.0.113.7", "" }

\* the clock advances in steps of TickMs, MaxTicks times
TickMs == 30 * 1000 + 1
MaxTicks == 2
\* the requests per window of the clients that stay below the limit
MaxQuiet == 2

InitMiddleware ==
  /\ tzOffset = 0
  /\ date = Epoch2000
  /\ latitude = 0
  /\ longitude = 0
  /\ phaseArg = 0
  /\ pc = "idle"
  /\ ret = 0
  /\ prev = NoPrev
  /\ dayOfCycle = 0
  /\ req = NoRequest
  /\ cache = << >>
  /\ ipRequestCounts = << >>
  /\ now = 0
  /\ coreCalls = {}
  /\ handled = 0
  /\ constellations = << >>
  /\ passed = << >>
  /\ apiCache = << >>

\* the count stored for a client, 0 before its first request
CountOf(ip) ==
  LET key == IF ip = "" THEN "unknown" ELSE ip
  IN  IF key \in DOMAIN ipRequestCounts THEN ipRequestCounts[key].count ELSE 0

\* one request passes the middleware.  A client is followed until it has
\* been refused once, and only one client at a time sends more than
\* MaxQuiet requests.
Middleware ==
  /\ \E url \in Urls, ip \in ClientIps :
       /\ CountOf(ip) <= API_RATE_LIMIT
       /\ \/ CountOf(ip) < MaxQuiet
          \/ \A other \in ClientIps \ {ip} : CountOf(other) <= MaxQuiet
       /\ \E outcome \in { middleware([pathname |-> url.pathname,
                                      search |-> url.search, ip |-> ip],
                                     now, ipRequestCounts) } :
            /\ req' = [pathname |-> url.pathname, search |-> url.search, ip |-> ip]
            /\ ret' = outcome.res
            /\ ipRequestCounts' = outcome.counts
  /\ pc' = "middleware"
  /\ UNCHANGED <<tzOffset, date, latitude, longitude, phaseArg, prev,
                 dayOfCycle, cache, now, coreCalls, handled, constellations, passed, apiCache>>

\* time passes
AdvanceClock ==
  /\ now < MaxTicks * TickMs
  /\ now' = now + TickMs
  /\ UNCHANGED <<tzOffset, date, latitude, longitude, phaseArg, pc, ret, prev,
                 dayOfCycle, req, cache, ipRequestCounts, coreCalls, handled,
                 constellations, passed, apiCache>>

NextMiddleware == Middleware \/ AdvanceClock

SpecMiddleware == InitMiddleware /\ [][NextMiddleware]_vars

\* C17: every response the middleware produces for a path under /api/
\* carries X-Content-Type-Options, X-Frame-Options and X-XSS-Protection,
\* the pass-through response, the 429 and the 403 alike.
C17_SecurityHeadersOnEveryApiResponse ==
  (pc = "middleware" /\ StartsAt(req.pathname, 1, << "/", "a", "p", "i", "/" >>)) =>
    \A name \in {"X-Content-Type-Options", "X-Frame-Options", "X-XSS-Protection"} :
      \E h \in ret.headers : h[1] = name


(***************************************************************************)
(* getVisiblePlanets over three decades.                                   *)
(***************************************************************************)
\* the last day examined, in days after 2000-01-01, and the days between
\* two dates examined
FarDays == 11000
FarStride == 7

\* one date in FarStride from DaysBefore days before 2000-01-01 to FarDays
\* days after it: every planet passes through its last quartile (Saturn's
\* first one runs from day 8070 to day 10759)
FarInstants ==
  { Epoch2000 + n * SecondsPerDay + s :
      n \in { m \in (-DaysBefore)..FarDays : m % FarStride = 0 }, s \in TimesOfDay }

InitPlanets ==
  /\ tzOffset \in TimeZones
  /\ date \in FarInstants
  /\ \E o \in Observers : latitude = o.lat /\ longitude = o.lng
  /\ phaseArg = 0
  /\ pc = "idle"
  /\ ret = 0
  /\ prev = NoPrev
  /\ OthersIdle

NextPlanets == GetVisiblePlanets

SpecPlanets == InitPlanets /\ [][NextPlanets]_vars

\* (jd - j2000) % period of the call, for the i-th planet
OrbitRemOf(i) == OrbitRem(JulianDaySplit(date, tzOffset), periods[i].period)

\* the planet's phase is at least 0.75
LastQuartile(name) ==
  \E i \in 1..Len(periods) :
    periods[i].name = name /\ ~PhaseLt(OrbitRemOf(i), periods[i].period, 75)

\* brightest and dimmest magnitude of each planet, in thousandths
C18_Ranges ==
  << [name |-> "Mercury", brightest |-> -1900, dimmest |-> 5700],
     [name |-> "Venus", brightest |-> -4600, dimmest |-> -3000],
     [name |-> "Mars", brightest |-> -2900, dimmest |-> 1800],
     [name |-> "Jupiter", brightest |-> -2900, dimmest |-> -2000],
     [name |-> "Saturn", brightest |-> -200, dimmest |-> 1200] >>

\* C18: for every instant, also before J2000, the orbit phase of each of the
\* five planets lies in [0, 1) and the magnitude reported for a planet lies
\* between its brightest and its dimmest value.
C18_PhaseAndMagnitudeInRange ==
  pc = "getVisiblePlanets" =>
    /\ \A i \in 1..Len(periods) :
         /\ OrbitRemOf(i).days >= 0
         /\ OrbitRemOf(i).part >= 0
         /\ OrbitRemOf(i).days < periods[i].period
    /\ \A i \in 1..Len(ret) : \A k \in 1..Len(C18_Ranges) :
         ret[i].name = C18_Ranges[k].name =>
           /\ C18_Ranges[k].brightest <= ret[i].magnitude
           /\ ret[i].magnitude <= C18_Ranges[k].dimmest

\* C19 as stated: Mars, Jupiter and Saturn are each absent from the result
\* of getVisiblePlanets whenever their orbit phase is at least 0.75.
C19_LastQuartileAbsent ==
  pc = "getVisiblePlanets" =>
    \A name \in {"Mars", "Jupiter", "Saturn"} :
      LastQuartile(name) => ~HasPlanet(ret, name)

\* C19 amended: Mars and Saturn are each absent from the result whenever
\* their orbit phase is at least 0.75; Jupiter is in the result at every
\* phase, its last quartile included.
C19_MarsSaturnAbsentJupiterPresent ==
  pc = "getVisiblePlanets" =>
    /\ \A name \in {"Mars", "Saturn"} : LastQuartile(name) => ~HasPlanet(ret, name)
    /\ HasPlanet(ret, "Jupiter")

\* a date not hidden by its date-number on which all three planets are in
\* their last quartile: Jupiter is listed, Mars and Saturn are not
C19_Witness ==
  /\ pc = "getVisiblePlanets"
  /\ \A name \in {"Mars", "Jupiter", "Saturn"} :
       LastQuartile(name) /\ ~HiddenByDate(date, tzOffset, name)
  /\ HasPlanet(ret, "Jupiter")
  /\ ~HasPlanet(ret, "Mars")
  /\ ~HasPlanet(ret, "Saturn")

\* the season of the state's call, and the northern season of the same date
C20_Season ==
  Season(getMonth(date, tzOffset), getDate(date, tzOffset), latitude >= 0)
C20_NorthernSeason ==
  Season(getMonth(date, tzOffset), getDate(date, tzOffset), TRUE)

C20_Inverse(season) ==
  CASE season = "winter" -> "summer"
    [] season = "summer" -> "winter"
    [] season = "spring" -> "fall"
    [] season = "fall" -> "spring"

\* the date is one of December 21 .. the given day of March
C20_WinterDate(lastDayOfMarch) ==
  LET month == getMonth(date, tzOffset)
      day   == getDate(date, tzOffset)
  IN  \/ month = 11 /\ day >= 21
      \/ month \in {0, 1}
      \/ month = 2 /\ day <= lastDayOfMarch

\* the parts of C20 that do not name the last winter day: one of the four
\* seasons, and south of the equator the inverse of the northern season
C20_OneSeasonInverted ==
  /\ C20_Season \in {"winter", "spring", "summer", "fall"}
  /\ latitude < 0 => C20_Season = C20_Inverse(C20_NorthernSeason)

\* C20 as stated: for a northern observer every date from December 21
\* through March 20 is winter; for a southern observer the season is the
\* inverse of the northern season of the date; every date has one season.
C20_WinterThroughMarch20 ==
  pc = "getVisibleConstellations" =>
    /\ (latitude >= 0 /\ C20_WinterDate(20)) => C20_Season = "winter"
    /\ C20_OneSeasonInverted

\* C20 amended: for a northern observer every date from December 21 through
\* March 19 is winter and March 20 is spring; for a southern observer the
\* season is the inverse of the northern season; every date has one season.
C20_WinterThroughMarch19 ==
  pc = "getVisibleConstellations" =>
    /\ (latitude >= 0 /\ C20_WinterDate(19)) => C20_Season = "winter"
    /\ (latitude >= 0 /\ C20_WinterDate(20) /\ ~C20_WinterDate(19))
         => C20_Season = "spring"
    /\ C20_OneSeasonInverted

\* a northern observer on March 19, the last day of winter
C20_Witness ==
  /\ pc = "getVisibleConstellations"
  /\ latitude >= 0
  /\ getMonth(date, tzOffset) = 2
  /\ getDate(date, tzOffset) = 19
  /\ C20_Season = "winter"


(***************************************************************************)
(* The parts of the result of getVisibleConstellations.                    *)
(***************************************************************************)
\* the catalog of the season of the state's call and the LST of the call
C21_Catalog == constellationsBySeason[C20_Season]
C21_Lst == getLocalSiderealTime(date, tzOffset, longitude)

\* the catalog entries within 6 hours of the LST, and how many are taken
C21_Near(cat, lst) == { i \in 1..Len(cat) : HourDiff(cat[i].ra, lst) < 6 * Hour }
C21_Count(cat, lst) ==
  LET near == Cardinality(C21_Near(cat, lst))
  IN  IF near < 5 THEN near ELSE 5

\* the distance of the catalog entry of that name
C21_Distance(cat, lst, name) ==
  HourDiff((CHOOSE c \in { cat[i] : i \in 1..Len(cat) } : c.name = name).ra, lst)

C21_SeasonalPart(cat, lst, near, count) ==
  /\ count <= 5
  /\ count <= Len(ret)
  /\ \A j \in 1..count : \E i \in near : cat[i].name = ret[j]
  /\ \A j, k \in 1..count : ret[j] = ret[k] => j = k
  /\ \A j \in 1..(count - 1) :
       C21_Distance(cat, lst, ret[j]) <= C21_Distance(cat, lst, ret[j + 1])
  /\ \A i \in near :
       (\A j \in 1..count : ret[j] # cat[i].name)
         => \A j \in 1..count :
              C21_Distance(cat, lst, ret[j]) <= HourDiff(cat[i].ra, lst)

\* C21: the seasonal part of the result, its first entries, consists only of
\* entries of the season's catalog within 6 hours of the LST (circular
\* distance), in ascending order of that distance, at most 5 of them, and
\* no entry left out is closer than one taken.
C21_SeasonalPartSorted ==
  pc = "getVisibleConstellations" =>
    C21_SeasonalPart(C21_Catalog, C21_Lst, C21_Near(C21_Catalog, C21_Lst),
                     C21_Count(C21_Catalog, C21_Lst))

C21_Reordered(cat, lst, near) ==
  /\ Cardinality(near) > 5
  /\ C21_Distance(cat, lst, ret[1]) < C21_Distance(cat, lst, ret[5])
  /\ \E i, k \in near : i > k /\ cat[i].name = ret[1] /\ cat[k].name = ret[2]

\* more than 5 entries are near, 5 are taken and the order is not the
\* catalog's: the first one taken stands behind the second in the catalog
C21_Witness ==
  /\ pc = "getVisibleConstellations"
  /\ C21_Reordered(C21_Catalog, C21_Lst, C21_Near(C21_Catalog, C21_Lst))

\* the circumpolar list and the two picks of the state's call
C22_Circumpolar == IF latitude >= 0 THEN circumNorth ELSE circumSouth
C22_DateNum ==
  getDate(date, tzOffset) + getMonth(date, tzOffset) * 100
    + getFullYear(date, tzOffset) * 10000
C22_First == C22_Circumpolar[(C22_DateNum % 5) + 1]
C22_Second == C22_Circumpolar[((C22_DateNum + 2) % 5) + 1]

\* seasonal entries, then the picks, then names of the common list
C22_Parts(count, first, second) ==
  /\ \A j, k \in 1..Len(ret) : ret[j] = ret[k] => j = k
  /\ first # second
  /\ Includes(ret, second) => count < 4
  /\ count < 4 => (ret[count + 1] = first /\ ret[count + 2] = second)
  /\ \A j \in 1..Len(ret) :
       j > count + (IF count < 4 THEN 2 ELSE 1) =>
         /\ count + 2 < 4
         /\ Includes(common, ret[j])
         /\ \A k \in 1..(j - 1) : ret[k] # ret[j]

\* C22: the result never holds a name twice: the two circumpolar picks are
\* distinct, the second is added only when fewer than 4 seasonal entries
\* were selected, and common names are added only when seasonal plus
\* circumpolar entries number fewer than 4, and only names not yet present.
C22_NoNameTwice ==
  pc = "getVisibleConstellations" =>
    C22_Parts(C21_Count(C21_Catalog, C21_Lst), C22_First, C22_Second)

\* a northern call with no seasonal entry near and Cassiopeia picked: the
\* common list is used and its Cassiopeia is skipped
C22_Witness ==
  /\ pc = "getVisibleConstellations"
  /\ C21_Count(C21_Catalog, C21_Lst) = 0
  /\ "Cassiopeia" \in {C22_First, C22_Second}
  /\ Len(ret) = 5
  /\ ret[3] = "Orion"
  /\ ret[5] # "Cassiopeia"

(***************************************************************************)
(* generateStarMapSVG on lists of names.                                   *)
(***************************************************************************)
\* names in the catalog, a name that is not, and a name every object inherits
NameInputs == {"Orion", "Crux", "Vela", "constructor"}
\* the longest list examined
MaxNames == 2

NameLists == UNION { [1..n -> NameInputs] : n \in 0..MaxNames }

InitStarMapSvg ==
  /\ tzOffset \in TimeZones
  /\ date \in { Epoch2000 + s : s \in TimesOfDay }
  /\ \E o \in Observers : latitude = o.lat /\ longitude = o.lng
  /\ phaseArg = 0
  /\ pc = "idle"
  /\ ret = 0
  /\ prev = NoPrev
  /\ dayOfCycle = 0
  /\ req = NoRequest
  /\ cache = << >>
  /\ ipRequestCounts = << >>
  /\ now = 0
  /\ coreCalls = {}
  /\ handled = 0
  /\ constellations \in NameLists
  /\ passed = << >>
  /\ apiCache = << >>

\* generateStarMapSVG(constellations, date, latitude, longitude)
GenerateStarMapSVG ==
  /\ pc = "idle"
  /\ pc' = "generateStarMapSVG"
  /\ ret' = generateStarMapSVG(constellations, date, tzOffset, latitude, longitude)
  /\ UNCHANGED <<tzOffset, date, latitude, longitude, phaseArg, prev, others>>

NextStarMapSvg == GenerateStarMapSVG

SpecStarMapSvg == InitStarMapSvg /\ [][NextStarMapSvg]_vars

\* the figure the claim names: the catalog's, or the default one
C23_Figure(name) ==
  IF \E i \in 1..Len(constellationData) : constellationData[i].name = name
  THEN constellationData[CHOOSE i \in 1..Len(constellationData) :
                           constellationData[i].name = name]
  ELSE defaultConstellation

\* the number of elements before the label of the j-th name
RECURSIVE C23_Before(_)
C23_Before(j) ==
  IF j = 1 THEN 1 + StarFieldCount
  ELSE C23_Before(j - 1) + 1 + Len(C23_Figure(constellations[j - 1]).lines)
         + Len(C23_Figure(constellations[j - 1]).stars)

\* the label, the lines and the stars of one figure at their place in the
\* graphic, every line running between two of the figure's own stars
C23_Drawn(figure, name, at) ==
  /\ Len(ret) >= at + 1 + Len(figure.lines) + Len(figure.stars)
  /\ ret[at + 1].shape = "text"
  /\ ret[at + 1].text = name
  /\ \A k \in 1..Len(figure.lines) :
       LET line == ret[at + 1 + k]
           from == figure.lines[k][1]
           to   == figure.lines[k][2]
       IN  /\ line.shape = "line"
           /\ from \in 0..(Len(figure.stars) - 1)
           /\ to \in 0..(Len(figure.stars) - 1)
           /\ line.x1 = ret[at + 1 + Len(figure.lines) + from + 1].cx
           /\ line.y1 = ret[at + 1 + Len(figure.lines) + from + 1].cy
           /\ line.x2 = ret[at + 1 + Len(figure.lines) + to + 1].cx
           /\ line.y2 = ret[at + 1 + Len(figure.lines) + to + 1].cy
  /\ \A k \in 1..Len(figure.stars) :
       ret[at + 1 + Len(figure.lines) + k].shape = "circle"

\* C23: for any list of names, known or unknown, generateStarMapSVG
\* completes and emits for each name exactly one label and one stick
\* figure, the catalog's or else the default one of 4 stars and 4 lines,
\* and every line of a figure joins stars of that figure.
C23_OneFigurePerName ==
  pc = "generateStarMapSVG" =>
    /\ ret # TypeError
    /\ Len(defaultConstellation.stars) = 4 /\ Len(defaultConstellation.lines) = 4
    /\ Len(ret) = C23_Before(Len(constellations) + 1)
    /\ \A j \in 1..Len(constellations) :
         C23_Drawn(C23_Figure(constellations[j]), constellations[j], C23_Before(j))

\* the same for lists without a name that objects inherit
C23_OwnNamesOnly ==
  (pc = "generateStarMapSVG"
     /\ \A j \in 1..Len(constellations) : constellations[j] \notin ObjectPrototype)
    => /\ ret # TypeError
       /\ Len(ret) = C23_Before(Len(constellations) + 1)
       /\ \A j \in 1..Len(constellations) :
            C23_Drawn(C23_Figure(constellations[j]), constellations[j], C23_Before(j))


(***************************************************************************)
(* The rate limiter over time: one client, plain API requests, and the     *)
(* times at which its requests were let through.                           *)
(***************************************************************************)
RateLimitedRequest ==
  [pathname |-> StarMapPath, search |-> << >>, ip |-> "203.0.113.7"]

InitRateLimit == InitMiddleware

\* one request of the client at the present time
RateLimitRequest ==
  /\ CountOf(RateLimitedRequest.ip) <= API_RATE_LIMIT
  /\ \E outcome \in { middleware(RateLimitedRequest, now, ipRequestCounts) } :
       /\ req' = RateLimitedRequest
       /\ ret' = outcome.res
       /\ ipRequestCounts' = outcome.counts
       /\ passed' =
            IF outcome.res.next
            THEN [t \in DOMAIN passed \cup {now} |->
                    IF t = now
                    THEN (IF now \in DOMAIN passed THEN passed[now] ELSE 0) + 1
                    ELSE passed[t]]
            ELSE passed
  /\ pc' = "middleware"
  /\ UNCHANGED <<tzOffset, date, latitude, longitude, phaseArg, prev,
                 dayOfCycle, cache, now, coreCalls, handled, constellations,
                 apiCache>>

NextRateLimit == RateLimitRequest \/ AdvanceClock

SpecRateLimit == InitRateLimit /\ [][NextRateLimit]_vars

\* the requests let through at the times of the set
RECURSIVE PassedAt(_)
PassedAt(times) ==
  IF times = {} THEN 0
  ELSE LET t == CHOOSE u \in times : TRUE
       IN  passed[t] + PassedAt(times \ {t})

\* C24: in any interval of 60 seconds at most 50 requests of the client are
\* let through; a request beyond that is answered 429.
C24_AtMost50InAnyMinute ==
  \A from \in DOMAIN passed :
    PassedAt({ t \in DOMAIN passed : from <= t /\ t < from + API_RATE_WINDOW })
      <= API_RATE_LIMIT

\* within one window of the limiter, from the first request counted to
\* API_RATE_WINDOW later, at most 50 requests are let through
C24_AtMost50InTheWindow ==
  \A ip \in DOMAIN ipRequestCounts :
    PassedAt({ t \in DOMAIN passed :
                 ipRequestCounts[ip].timestamp <= t
                   /\ t <= ipRequestCounts[ip].timestamp + API_RATE_WINDOW })
      <= API_RATE_LIMIT


(***************************************************************************)
(* Phase name and moon graphic.                                            *)
(***************************************************************************)
\* the eight phases in the order of the cycle, counted from 0
C25_Cycle ==
  << "New Moon", "Waxing Crescent", "First Quarter", "Waxing Gibbous",
     "Full Moon", "Waning Gibbous", "Last Quarter", "Waning Crescent" >>
C25_NameIndex(name) == (CHOOSE i \in 1..8 : C25_Cycle[i] = name) - 1

\* the phase whose drawing variant a graphic is; isDark tells a dark fill
C25_Variant(svg, isDark(_)) ==
  IF Len(svg) = 1 THEN (IF isDark(svg[1].fill) THEN 0 ELSE 4)
  ELSE IF svg[2].back = "L" THEN (IF svg[2].sweep = 1 THEN 2 ELSE 6)
  ELSE IF isDark(svg[1].fill) THEN (IF svg[2].sweep = 1 THEN 1 ELSE 7)
  ELSE (IF svg[2].sweep = 0 THEN 3 ELSE 5)

C25_Adjacent(variant, name) == (variant - C25_NameIndex(name)) % 8 \in {0, 1, 7}

C25_DarkText(fill) == fill = C14_Black
C25_DarkFill(fill) == fill = "black"

\* C25: in every star-map response the moon graphic is the drawing variant
\* of the reported phase name or of a phase next to it in the cycle.
C25_NameAndGraphicAgree ==
  Answered200 =>
    C25_Adjacent(C25_Variant(ret.body.moonPhase.svgPath, C25_DarkText),
                 ret.body.moonPhase.name)

\* the same of the engine alone, for phases that are not negative
C25_EngineAgreesFromReference ==
  (pc = "getMoonPhase" /\ ret.phase >= 0) =>
    C25_Adjacent(C25_Variant(generateMoonPhaseSVG(ret.phase), C25_DarkFill), ret.name)


(***************************************************************************)
(* Lit area of the moon graphic.                                           *)
(***************************************************************************)
\* Areas are divided by pi * r / 2 and multiplied by CosOne: the disc is
\* 2 * r, a half ellipse of horizontal radius rx and vertical radius r is rx.
\* The path starts at the top of the disc, runs to the bottom along a half
\* ellipse and comes back along a straight line or along half the disc's edge
\* (on the side of the ellipse when the sweep flags differ).
PathArea(path) ==
  IF path.back = "L" THEN path.rx
  ELSE IF path.sweep # path.backSweep THEN SvgR * CosOne - path.rx
  ELSE SvgR * CosOne + path.rx

\* the area filled white when the shapes are drawn in order
LitArea(svg) ==
  LET disc == IF svg[1].fill = "white" THEN 2 * SvgR * CosOne ELSE 0
  IN  IF Len(svg) = 1 THEN disc
      ELSE IF svg[2].fill = "white" THEN PathArea(svg[2])
      ELSE disc - PathArea(svg[2])

C26_Waxing == { p \in PhaseArgs : 0 < p /\ 2 * p < LunarCycle }
C26_Waning == { p \in PhaseArgs : LunarCycle < 2 * p /\ p < LunarCycle }

\* C26: the lit area of the graphic never decreases as the phase grows
\* between 0 and 0.5 and never increases as it grows between 0.5 and 1.
C26_LitAreaMonotone ==
  pc = "generateMoonPhaseSVG" =>
    /\ phaseArg \in C26_Waxing =>
         \A q \in C26_Waxing :
           q < phaseArg => LitArea(generateMoonPhaseSVG(q)) <= LitArea(ret)
    /\ phaseArg \in C26_Waning =>
         \A q \in C26_Waning :
           q < phaseArg => LitArea(generateMoonPhaseSVG(q)) >= LitArea(ret)

\* what the graphic does instead: within each of the four drawing variants
\* with a lune the lit area moves against the phase
C26_LitAreaAgainstPhase ==
  (pc = "generateMoonPhaseSVG" /\ Len(ret) = 2 /\ ret[2].back = "A") =>
    \A q \in PhaseArgs :
      (/\ 0 < q /\ q < phaseArg /\ phaseArg < LunarCycle
       /\ generateMoonPhaseSVG(q)[1] = ret[1]
       /\ Len(generateMoonPhaseSVG(q)) = 2
       /\ generateMoonPhaseSVG(q)[2].sweep = ret[2].sweep
       /\ generateMoonPhaseSVG(q)[2].back = "A")
      => IF 2 * phaseArg < LunarCycle
           THEN LitArea(generateMoonPhaseSVG(q)) >= LitArea(ret)
           ELSE LitArea(generateMoonPhaseSVG(q)) <= LitArea(ret)


(***************************************************************************)
(* Cached and fresh responses.                                             *)
(***************************************************************************)
\* the response the request gets when nothing is cached
C27_Fresh == handler(req, tzOffset, date, << >>).res.body

\* C27: a response answered from the cache is the response the request
\* would get when computed afresh, in every field.
C27_HitEqualsFresh ==
  (Answered200 /\ <<"X-Cache", "HIT">> \in ret.headers) => ret.body = C27_Fresh

\* the same with the location left out of the comparison
C27_HitEqualsFreshButLocation ==
  (Answered200 /\ <<"X-Cache", "HIT">> \in ret.headers) =>
    [ret.body EXCEPT !.location = Undefined] = [C27_Fresh EXCEPT !.location = Undefined]


(***************************************************************************)
(* The coordinates the engine is called with.                              *)
(***************************************************************************)
\* the observer's coordinates of the engine calls of the response
C28_Used == { <<call.args[2], call.args[3]>> : call \in { c \in coreCalls : c.fn = "getVisibleConstellations" } }

C28_Computed == Answered200 /\ coreCalls # {}

\* C28: a latitude or longitude supplied as a number in range, 0 included,
\* is the one the engine is called with; the default stands in only for a
\* coordinate that was not supplied.
C28_SuppliedCoordinatesUsed ==
  C28_Computed =>
    \A used \in C28_Used :
      /\ req.body.latitude.type = "number" => used[1] = req.body.latitude.num
      /\ req.body.longitude.type = "number" => used[2] = req.body.longitude.num

\* the same for coordinates other than 0, and the default for 0 and for a
\* coordinate that is not there
C28_NonZeroCoordinatesUsed ==
  C28_Computed =>
    \A used \in C28_Used :
      /\ (req.body.latitude.type = "number" /\ req.body.latitude.num # 0)
           => used[1] = req.body.latitude.num
      /\ (req.body.longitude.type = "number" /\ req.body.longitude.num # 0)
           => used[2] = req.body.longitude.num
      /\ (req.body.latitude.type = "undefined" \/ req.body.latitude = Number(0))
           => used[1] = DefaultLatitude
      /\ req.body.longitude.type = "undefined" => used[2] = DefaultLongitude


(***************************************************************************)
(* The UI's moon phase (utils/moonPhase): getMoonPhase.                    *)
(* Angles are carried in millionths of a degree, the instant in half days  *)
(* from J2000.0 (2000-01-01T12:00Z).                                       *)
(***************************************************************************)
MicroDeg == 1000000
Turn == 360 * MicroDeg

\* 2 * (date.getTime() / 86400000 + 2440587.5 - 2451545.0)
HalfDaysJ2000(d) == (d - Epoch2000 - SecondsPerDay \div 2) \div (SecondsPerDay \div 2)

\* Math.sin(x * Math.PI / 180), times CosOne, for -360 < x < 360
SinDeg(x) ==
  LET s == Sin2Pi(Abs(x) \div 1000, Turn \div 1000)
  IN  IF x < 0 THEN -s ELSE s

\* (280.46646 + daysJ2000 * 0.9856474) % 360
SunMeanLongitude(h) == JsRem(280466460 + (9856474 * h) \div 20, Turn)
\* (357.52911 + daysJ2000 * 0.9856003) % 360
SunMeanAnomaly(h) == JsRem(357529110 + (9856003 * h) \div 20, Turn)
\* (sunMeanLongitude + 1.915 * sin(sunMeanAnomaly) + 0.020 * sin(2 * sunMeanAnomaly)) % 360
EclipticLongitude(h) ==
  JsRem(SunMeanLongitude(h) + (1915 * SinDeg(SunMeanAnomaly(h))) \div 10
          + 2 * SinDeg(JsRem(2 * SunMeanAnomaly(h), Turn)),
        Turn)
\* (218.316 + 13.176396 * daysJ2000) % 360
MoonMeanLongitude(h) == JsRem(218316000 + 6588198 * h, Turn)
\* (moonMeanLongitude - eclipticLongitude + 180) % 360
Elongation(h) ==
  JsRem(MoonMeanLongitude(h) - EclipticLongitude(h) + 180 * MicroDeg, Turn)

\* Math.floor(((elongation + 22.5) % 360) / 45)
PhaseIndex(elongation) ==
  JsRem(elongation + 22500000, Turn) \div (45 * MicroDeg)

\* parseFloat((50 * (1 - Math.cos(elongation * Math.PI / 180))).toFixed(1))
IlluminationOf(elongation) ==
  (500 * (CosOne - Cos2Pi(Abs(elongation) \div 1000, Turn \div 1000))
     + CosOne \div 2) \div CosOne

\* parseFloat((29.53 * (elongation / 360.0)).toFixed(1)), in tenths of a day
AgeOf(elongation) ==
  LET tenths == (2953 * (Abs(elongation) \div 1000) + 1800000) \div 3600000
  IN  IF elongation < 0 THEN -tenths ELSE tenths

\* (target - phaseIndex) * 3.69125, plus 29.53 when it is negative (or 0, for
\* the new moon), in hundredths of a day
DaysTo(target, phaseIndex, orZero) ==
  LET days == (target - phaseIndex) * 369125
  IN  (IF days < 0 \/ (orZero /\ days = 0) THEN days + 2953000 ELSE days) \div 1000

getMoonPhaseUi(d) ==
  LET elongation == Elongation(HalfDaysJ2000(d))
      phaseIndex == PhaseIndex(elongation)
  IN  [phase        |-> ArrayAt(MOON_PHASE_NAMES, phaseIndex),
       illumination |-> IlluminationOf(elongation),
       emoji        |-> ArrayAt(MOON_PHASE_EMOJIS, phaseIndex),
       age          |-> AgeOf(elongation),
       date         |-> d,
       nextFullMoon |-> SetDateForward(d, DaysTo(4, phaseIndex, FALSE)),
       nextNewMoon  |-> SetDateForward(d, DaysTo(0, phaseIndex, TRUE))]

\* the instants examined: every noon and midnight UTC within UiHalfDays half
\* days of J2000.0
UiHalfDays == 200
UiDates ==
  { Epoch2000 + SecondsPerDay \div 2 + h * (SecondsPerDay \div 2) : h \in -UiHalfDays..UiHalfDays }

InitUiDate ==
  /\ tzOffset = 0
  /\ date \in UiDates
  /\ latitude = 0
  /\ longitude = 0
  /\ phaseArg = 0
  /\ pc = "idle"
  /\ ret = 0
  /\ prev = NoPrev
  /\ OthersIdle

\* getMoonPhase(date) of utils/moonPhase
GetMoonPhaseUi ==
  /\ pc = "idle"
  /\ pc' = "getMoonPhaseUi"
  /\ ret' = getMoonPhaseUi(date)
  /\ UNCHANGED <<tzOffset, date, latitude, longitude, phaseArg, prev, others>>

NextUiDate == GetMoonPhaseUi

SpecUiDate == InitUiDate /\ [][NextUiDate]_vars

\* C29: for every date getMoonPhase of the UI returns one of the eight phase
\* names with its emoji.
C29_OneOfEightPhases ==
  pc = "getMoonPhaseUi" =>
    \E i \in 1..8 : ret.phase = MOON_PHASE_NAMES[i] /\ ret.emoji = MOON_PHASE_EMOJIS[i]

\* one of the eight phases is returned when the elongation is not below
\* -22.5 degrees, and undefined when it is
C29_UndefinedBelowMinus22 ==
  pc = "getMoonPhaseUi" =>
    IF Elongation(HalfDaysJ2000(date)) >= -22500000
    THEN \E i \in 1..8 : ret.phase = MOON_PHASE_NAMES[i] /\ ret.emoji = MOON_PHASE_EMOJIS[i]
    ELSE ret.phase = "undefined" /\ ret.emoji = "undefined"


(***************************************************************************)
(* The NASA APOD handler (pages/api/nasa/apod.ts).  Texts are sequences of *)
(* characters; Date.now() is the host clock at the start, date, plus now   *)
(* milliseconds.                                                           *)
(***************************************************************************)
\* 24 hours in milliseconds
CACHE_TTL == 86400000

ApodOutcome(status, headers, body, c) ==
  [res |-> [status |-> status, headers |-> headers, body |-> body], cache |-> c]

\* the catch block
ApodUnexpected(c) ==
  ApodOutcome(500, {}, [error   |-> "Failed to fetch NASA APOD data",
                        message |-> "An unexpected error occurred. Please try again later."], c)

\* s.endsWith(tail)
EndsWith(s, tail) ==
  Len(tail) <= Len(s) /\ SubSeq(s, Len(s) - Len(tail) + 1, Len(s)) = tail

\* s.startsWith(head)
StartsWith(s, head) == Len(head) <= Len(s) /\ SubSeq(s, 1, Len(head)) = head

\* the characters of s before the first one that is in stop
RECURSIVE Before(_, _)
Before(s, stop) ==
  IF s = << >> \/ Head(s) \in stop THEN << >>
  ELSE << Head(s) >> \o Before(Tail(s), stop)

\* s without the slashes it starts with
RECURSIVE SkipSlashes(_)
SkipSlashes(s) ==
  IF s # << >> /\ Head(s) \in {"/", "\\"} THEN SkipSlashes(Tail(s)) ELSE s

\* new URL(url).hostname of an http or https URL in lower case without user
\* name: the slashes after the scheme may be missing; the empty text when
\* url is not such a URL
Hostname(url) ==
  LET rest == IF StartsWith(url, << "h", "t", "t", "p", "s", ":" >>) THEN SubSeq(url, 7, Len(url))
              ELSE IF StartsWith(url, << "h", "t", "t", "p", ":" >>) THEN SubSeq(url, 6, Len(url))
              ELSE << >>
  IN  Before(SkipSlashes(rest), {"/", "\\", "?", "#", ":"})

isValidUrl(url) == Hostname(url) # << >>

allowedDomains ==
  << << "a", "p", "o", "d", ".", "n", "a", "s", "a", ".", "g", "o", "v" >>,
     << "i", "m", "a", "g", "e", "s", ".", "n", "a", "s", "a", ".", "g", "o", "v" >>,
     << "w", "w", "w", ".", "n", "a", "s", "a", ".", "g", "o", "v" >>,
     << "n", "a", "s", "a", ".", "g", "o", "v" >>,
     << "s", "t", "s", "c", "i", "-", "o", "p", "o", ".", "o", "r", "g" >>,
     << "w", "w", "w", ".", "s", "t", "s", "c", "i", "-", "o", "p", "o", ".", "o", "r", "g" >> >>

isAllowedDomain(url) ==
  \E i \in 1..Len(allowedDomains) :
    \/ Hostname(url) = allowedDomains[i]
    \/ EndsWith(Hostname(url), << "." >> \o allowedDomains[i])

\* response.field || fallback, sanitised
SanitizedOr(field, fallback) ==
  String(validateUserInput(IF Truthy(field) THEN field.chars ELSE fallback))

\* an exception thrown in place of a result
Thrown == [thrown |-> TRUE]

\* sanitizeNasaResponse: the sanitised copy, or the exception
sanitizeNasaResponse(response) ==
  IF ~Truthy(response.date) \/ ~Truthy(response.title) \/ ~Truthy(response.url)
  THEN Thrown
  ELSE LET url   == validateUserInput(response.url.chars)
           hdurl == IF Truthy(response.hdurl)
                    THEN validateUserInput(response.hdurl.chars) ELSE << >>
       IN  IF ~isValidUrl(url) \/ ~isAllowedDomain(url) THEN Thrown
           ELSE [date        |-> String(validateUserInput(response.date.chars)),
                 title       |-> String(validateUserInput(response.title.chars)),
                 explanation |-> SanitizedOr(response.explanation, << >>),
                 url         |-> String(url),
                 media_type  |-> SanitizedOr(response.media_type, << "i", "m", "a", "g", "e" >>),
                 hdurl       |-> IF hdurl # << >> /\ isValidUrl(hdurl) /\ isAllowedDomain(hdurl)
                                 THEN String(hdurl) ELSE Undefined,
                 copyright   |-> IF Truthy(response.copyright)
                                 THEN String(validateUserInput(response.copyright.chars))
                                 ELSE Undefined]

\* new Date(text) of a text YYYY-MM-DD that names a day of the calendar: the
\* start of that day in UTC; an Invalid Date for a text without digits
DateParse(text) ==
  LET parts == Split(text, << >>)
  IN  IF /\ Len(parts) = 3
         /\ Len(parts[1]) = 4 /\ Len(parts[2]) = 2 /\ Len(parts[3]) = 2
         /\ \A i \in 1..3 : \A j \in 1..Len(parts[i]) : IsDigit(parts[i][j])
         /\ DigitsValue(parts[2], 0) \in 1..12
         /\ DigitsValue(parts[3], 0) >= 1
         /\ DigitsValue(parts[3], 0)
              <= MakeDay(DigitsValue(parts[1], 0), DigitsValue(parts[2], 0), 1)
                   - MakeDay(DigitsValue(parts[1], 0), DigitsValue(parts[2], 0) - 1, 1)
      THEN Num(MakeDay(DigitsValue(parts[1], 0), DigitsValue(parts[2], 0) - 1,
                       DigitsValue(parts[3], 0)) * SecondsPerDay)
      ELSE NaN

\* d.toISOString().split('T')[0]
IsoDay(d) == DateText(getFullYear(d, 0), getMonth(d, 0) + 1, getDate(d, 0))

\* lines 33-39: the date text of the request, today's when there is none
ApodDate(query, clock) ==
  LET given == IF Truthy(query.date) THEN validateUserInput(query.date.chars) ELSE << >>
  IN  IF given = << >> THEN IsoDay(clock) ELSE given

\* lines 54-57: the digest of the text stands for the text
ApodCacheKey(formattedDate) == << "a", "p", "o", "d", "-" >> \o formattedDate

\* an entry is served for any age
ApodFresh_Always(entry, nowMs) == TRUE

\* line 61: Date.now() - cachedData.timestamp < CACHE_TTL
ApodFresh(entry, nowMs) == nowMs - entry.timestamp < CACHE_TTL

\* lines 59-82: the cached data, or the sanitised answer of the NASA API,
\* which is stored
ApodServe(cacheKey, nowMs, nasa, c) ==
  IF cacheKey \in DOMAIN c /\ ApodFresh(c[cacheKey], nowMs)
  THEN ApodOutcome(200, { <<"X-Cache", "HIT">> }, c[cacheKey].data, c)
  \* secureNasaApiRequest throws
  ELSE IF ~nasa.ok THEN ApodUnexpected(c)
  ELSE IF sanitizeNasaResponse(nasa.data) = Thrown THEN ApodUnexpected(c)
  ELSE ApodOutcome(200, { <<"X-Cache", "MISS">> }, sanitizeNasaResponse(nasa.data),
                   [k \in DOMAIN c \cup {cacheKey} |->
                      IF k = cacheKey
                      THEN [data |-> sanitizeNasaResponse(nasa.data), timestamp |-> nowMs]
                      ELSE c[k]])

\* the handler: the response and the cache afterwards.  clock is the host
\* clock in seconds, nowMs the same clock in milliseconds from the start,
\* nasa the answer the NASA API gives when it is asked
apodHandler(request, clock, nowMs, nasa, c) ==
  IF request.method # "GET"
  THEN ApodOutcome(405, {}, [error   |-> "Method not allowed",
                             message |-> "Only GET requests are supported"], c)
  \* input.trim is not a function
  ELSE IF request.query.date.type \notin {"undefined", "string"} THEN ApodUnexpected(c)
  ELSE IF DateParse(ApodDate(request.query, clock)).nan
  THEN ApodOutcome(400, {}, [error   |-> "Invalid date format",
                             message |-> "Please provide a valid date in YYYY-MM-DD format"], c)
  ELSE ApodServe(ApodCacheKey(IsoDay(DateParse(ApodDate(request.query, clock)).v)),
                 nowMs, nasa, c)

(***************************************************************************)
(* The two API handlers side by side.                                      *)
(***************************************************************************)
\* star-map requests: answered 200 (computed, then cached), 400, 405 and 500
ApiStarMapRequests ==
  { [method |-> "POST", body |-> b] :
      b \in { BaseBody,
              [BaseBody EXCEPT !.location = String(<< "<", "b", ">", "N", "Y", "<", "/", "b", ">" >>)],
              [BaseBody EXCEPT !.date = Undefined],
              [BaseBody EXCEPT !.date = Number(20000115)],
              [BaseBody EXCEPT !.latitude = Number(90 * Deg + 1)] } }
    \cup { [method |-> "GET", body |-> BaseBody] }

ApodRequests ==
  { [method |-> "GET", query |-> [date |-> d]] :
      d \in { Undefined,
              String(<< "2", "0", "0", "0", "-", "0", "1", "-", "1", "5" >>),
              String(<< "a", "b", "c" >>),
              [type |-> "array"] } }
    \cup { [method |-> "POST", query |-> [date |-> Undefined]] }

\* the picture of the day as the NASA API may answer
ApodAnswer(url) ==
  [date        |-> String(<< "2", "0", "0", "0", "-", "0", "1", "-", "1", "5" >>),
   title       |-> String(<< "<", "b", ">", "M", "3", "1", "<", "/", "b", ">" >>),
   explanation |-> Undefined,
   url         |-> url,
   media_type  |-> String(<< "i", "m", "a", "g", "e" >>),
   hdurl       |-> String(<< "h", "t", "t", "p", "s", ":", "/", "/", "e", "x", "a", "m", "p", "l", "e", ".", "o", "r", "g" >>),
   copyright   |-> Undefined]

\* the request fails; an answer with a URL of the host alone; one with a
\* path; one without a URL
NasaAnswers ==
  { [ok |-> FALSE] }
    \cup { [ok |-> TRUE, data |-> ApodAnswer(u)] :
             u \in { String(<< "h", "t", "t", "p", "s", ":", "/", "/", "a", "p", "o", "d", ".", "n", "a", "s", "a", ".", "g", "o", "v" >>),
                     String(<< "h", "t", "t", "p", "s", ":", "/", "/", "a", "p", "o", "d", ".", "n", "a", "s", "a", ".", "g", "o", "v", "/", "a", "p", "o", "d", "/", "m", "3", "1", ".", "j", "p", "g" >>),
                     Undefined } }

\* the number of half days the clock runs
MaxHalfDays == 2

InitApi ==
  /\ tzOffset = 0
  /\ date = StarMapClock
  /\ latitude = 0
  /\ longitude = 0
  /\ phaseArg = 0
  /\ pc = "idle"
  /\ ret = 0
  /\ prev = NoPrev
  /\ OthersIdle

\* one request to the star-map API
ApiStarMapRequest ==
  /\ handled < MaxRequests
  /\ \E request \in ApiStarMapRequests :
       \E outcome \in { handler(request, tzOffset, date + now \div 1000, cache) } :
         /\ req' = request
         /\ ret' = outcome.res
         /\ cache' = outcome.cache
         /\ coreCalls' = outcome.calls
  /\ pc' = "handler"
  /\ handled' = handled + 1
  /\ UNCHANGED <<tzOffset, date, latitude, longitude, phaseArg, prev,
                 dayOfCycle, ipRequestCounts, now, constellations, passed, apiCache>>

\* one request to the APOD API
ApodRequest ==
  /\ handled < MaxRequests
  /\ \E request \in ApodRequests, nasa \in NasaAnswers :
       \E outcome \in { apodHandler(request, date + now \div 1000, now, nasa, apiCache) } :
         /\ req' = request
         /\ ret' = outcome.res
         /\ apiCache' = outcome.cache
  /\ pc' = "apod"
  /\ handled' = handled + 1
  /\ UNCHANGED <<tzOffset, date, latitude, longitude, phaseArg, prev,
                 dayOfCycle, cache, ipRequestCounts, now, coreCalls,
                 constellations, passed>>

\* half a day passes
HalfDayPasses ==
  /\ now < MaxHalfDays * (CACHE_TTL \div 2)
  /\ now' = now + CACHE_TTL \div 2
  /\ UNCHANGED <<tzOffset, date, latitude, longitude, phaseArg, pc, ret, prev,
                 dayOfCycle, req, cache, ipRequestCounts, coreCalls, handled,
                 constellations, passed, apiCache>>

NextApi == ApiStarMapRequest \/ ApodRequest \/ HalfDayPasses

SpecApi == InitApi /\ [][NextApi]_vars

C30_Hit == <<"X-Cache", "HIT">> \in ret'.headers
C30_Miss == ret'.status = 200 /\ <<"X-Cache", "MISS">> \in ret'.headers
C30_Key == ApodCacheKey(IsoDay(DateParse(ApodDate(req'.query, date + now \div 1000)).v))

\* C30: a step changes the star-map cache only when the star-map handler
\* answers 200 with computed data, and the APOD cache only when the APOD
\* handler answers 200 with fetched data; a request answered 400, 405 or
\* 500, or from a cache, leaves both caches as they were; and what the APOD
\* handler serves from its cache was stored less than 24 hours before.
C30_CacheWrittenOnlyWhenFresh ==
  [][/\ cache' # cache => (pc' = "handler" /\ C30_Miss /\ apiCache' = apiCache)
     /\ apiCache' # apiCache => (pc' = "apod" /\ C30_Miss /\ cache' = cache)
     /\ (handled' # handled /\ pc' = "apod" /\ C30_Hit) =>
          /\ C30_Key \in DOMAIN apiCache
          /\ ret'.body = apiCache[C30_Key].data
          /\ now - apiCache[C30_Key].timestamp < CACHE_TTL]_vars

\* the APOD handler has answered from its cache half a day or more after
\* the entry was stored
C30_Witness ==
  /\ pc = "apod"
  /\ <<"X-Cache", "HIT">> \in ret.headers
  /\ now > 0
  /\ \E k \in DOMAIN apiCache : apiCache[k].timestamp = 0 /\ ret.body = apiCache[k].data

=============================================================================
